---- MODULE Spec2Model ----
(***************************************************************************)
(* A model of the StrainGE k-mer set engine (strainge/kmertools.py), the   *)
(* pan-genome database builder (strainge/cli/kmersets.py) and the StrainGST*)
(* iterative strain search (strainge/search_tool.py).                      *)
(*                                                                         *)
(* numpy arrays are sequences (1-based); a value that may be None is a     *)
(* sequence of length 0 (None) or 1 (the value).  A KmerSet object is a    *)
(* record of its fields.  Fractions (frac, min_frac, min_acct, ...) are    *)
(* pairs <<numerator, denominator>>.                                       *)
(***************************************************************************)
EXTENDS Integers, Sequences, FiniteSets, TLC

(***************************************************************************)
(* Bounds of the model.                                                    *)
(***************************************************************************)
MaxKey == 1            \* k-mers are the integers 0..MaxKey
MaxCount == 1          \* largest count in a k-mer set given as input
MaxBatch == 2          \* largest number of k-mers in one batch
MaxNKmers == 2         \* process_batch is not called once n_kmers would exceed this

MaxSampleCount == 2    \* largest count of a k-mer in a searched sample
MaxIterations == 2     \* largest value of the iterations option
MaxTop == 2            \* largest value of the top option
MaxStrains == 2        \* largest number of k-mer sets given to createdb
MaxStrainCount == 2    \* largest count of a k-mer in a k-mer set given to createdb
MaxDBKey == 1          \* the k-mer sets given to createdb hold keys 0..MaxDBKey

MaxScaffolds == 3      \* largest number of scaffolds in a reference
MaxScaffoldLen == 2    \* largest length of a scaffold of a reference
MaxCallLen == 3        \* largest length of a scaffold with call data
MaxSumLen == 3         \* largest length of a summarized scaffold
MaxAbunScaffolds == 2  \* largest number of scaffolds with an abundance
MaxReadCount == 1      \* largest number of uniquely mapped reads of a scaffold
MaxSpectrumLen == 3    \* largest number of frequencies in a k-mer spectrum
MaxPileups == 2        \* largest number of pileup reads assessed
MaxAlignments == 1     \* largest number of uniquely mapped reads counted by process
MaxBases == 3          \* largest number of bases in a file given to kmerize_file

Keys == 0..MaxKey

(***************************************************************************)
(* Sequence helpers standing for numpy indexing.                           *)
(***************************************************************************)
None == <<>>
Some(x) == <<x>>

Range(s) == {s[i] : i \in DOMAIN s}

Min(a, b) == IF a < b THEN a ELSE b

RECURSIVE Prod(_)
Prod(s) == IF s = <<>> THEN 1 ELSE Head(s) * Prod(Tail(s))

RECURSIVE Sum(_)
Sum(s) == IF s = <<>> THEN 0 ELSE Head(s) + Sum(Tail(s))

\* arr[ix] for an index array ix
Gather(arr, ix) == [j \in 1..Len(ix) |-> arr[ix[j]]]

\* arr[mask] for a boolean array mask
MaskSelect(arr, mask) ==
    LET ix == SelectSeq([i \in 1..Len(arr) |-> i], LAMBDA i : mask[i])
    IN  [j \in 1..Len(ix) |-> arr[ix[j]]]

\* ndarray.sort() / the ordering part of np.unique
RECURSIVE SortedSeq(_)
SortedSeq(S) ==
    IF S = {} THEN <<>>
    ELSE LET m == CHOOSE x \in S : \A y \in S : x <= y
         IN  <<m>> \o SortedSeq(S \ {m})

IsStrictlySorted(s) == \A i \in 1..(Len(s) - 1) : s[i] < s[i + 1]

\* np.unique(batch, return_counts=True)
np_unique(batch) ==
    LET ks == SortedSeq(Range(batch))
    IN  [kmers  |-> ks,
         counts |-> [i \in 1..Len(ks) |->
                       Cardinality({j \in DOMAIN batch : batch[j] = ks[i]})]]

\* np.count_nonzero(counts == 1)
count_singletons(counts) == Cardinality({i \in DOMAIN counts : counts[i] = 1})

(***************************************************************************)
(* The kmerizer extension (C++, not part of the Python sources): modelled  *)
(* from its contract.  Counts in the model stay far below the 2^32-1       *)
(* saturation point of merge_counts.                                       *)
(***************************************************************************)
RECURSIVE kmerizer_merge_counts(_, _, _, _)
kmerizer_merge_counts(ak, ac, bk, bc) ==
    IF ak = <<>> THEN [kmers |-> bk, counts |-> bc]
    ELSE IF bk = <<>> THEN [kmers |-> ak, counts |-> ac]
    ELSE IF Head(ak) < Head(bk) THEN
        LET r == kmerizer_merge_counts(Tail(ak), Tail(ac), bk, bc)
        IN  [kmers |-> <<Head(ak)>> \o r.kmers, counts |-> <<Head(ac)>> \o r.counts]
    ELSE IF Head(bk) < Head(ak) THEN
        LET r == kmerizer_merge_counts(ak, ac, Tail(bk), Tail(bc))
        IN  [kmers |-> <<Head(bk)>> \o r.kmers, counts |-> <<Head(bc)>> \o r.counts]
    ELSE
        LET r == kmerizer_merge_counts(Tail(ak), Tail(ac), Tail(bk), Tail(bc))
        IN  [kmers  |-> <<Head(ak)>> \o r.kmers,
             counts |-> <<Head(ac) + Head(bc)>> \o r.counts]

\* indices (into a) of the elements of a that are present in b
RECURSIVE IxFrom(_, _, _)
IxFrom(a, b, i) ==
    IF i > Len(a) THEN <<>>
    ELSE (IF a[i] \in Range(b) THEN <<i>> ELSE <<>>) \o IxFrom(a, b, i + 1)

kmerizer_intersect_ix(a, b) == IxFrom(a, b, 1)

kmerizer_intersect(a, b) == SelectSeq(a, LAMBDA x : x \in Range(b))

kmerizer_diff(a, b) == SelectSeq(a, LAMBDA x : x \notin Range(b))

\* FNV-1a of a one-byte payload, low byte of the 64-bit hash:
\* ((offset_basis XOR byte) * prime) mod 2^8
FNV_OFFSET == 37
FNV_PRIME == 179
FNV_MOD == 256

RECURSIVE Xor(_, _)
Xor(a, b) ==
    IF a = 0 THEN b
    ELSE IF b = 0 THEN a
    ELSE ((a + b) % 2) + 2 * Xor(a \div 2, b \div 2)

fnvhash(x) == (Xor(FNV_OFFSET, x) * FNV_PRIME) % FNV_MOD

kmerizer_fnvhash_kmers(kmers) == [i \in DOMAIN kmers |-> fnvhash(kmers[i])]

\* ndarray.argsort(): the indices in ascending order of value
RECURSIVE ArgSortFrom(_, _)
ArgSortFrom(h, todo) ==
    IF todo = {} THEN <<>>
    ELSE LET i == CHOOSE x \in todo :
                    \A y \in todo : h[x] < h[y] \/ (h[x] = h[y] /\ x <= y)
         IN  <<i>> \o ArgSortFrom(h, todo \ {i})

argsort(h) == ArgSortFrom(h, DOMAIN h)

\* rounding as int(x + 0.5) does it: a tie goes up
round_half_up(num, den) == (2 * num + den) \div (2 * den)

\* Python's round() of the fraction num/den (den > 0, num >= 0): to nearest,
\* a tie goes to the even neighbour
py_round(num, den) ==
    LET q == num \div den
        r == num % den
    IN  IF 2 * r < den THEN q
        ELSE IF 2 * r > den THEN q + 1
        ELSE IF q % 2 = 0 THEN q ELSE q + 1

(***************************************************************************)
(* class KmerSet.  A method with receiver self is an operator from the     *)
(* record self (and the arguments) to the record after the call.           *)
(***************************************************************************)
KmerSet_new ==
    [kmers_is_none |-> TRUE, kmers |-> <<>>, counts |-> <<>>,
     fingerprint |-> None, singletons |-> None,
     n_seqs |-> 0, n_bases |-> 0, n_kmers |-> 0]

\* a k-mer set as read from an HDF5 file by load_hdf5: f maps every key to
\* its count, 0 for an absent key
KmerSet_loaded(f) ==
    LET ks == SortedSeq({x \in DOMAIN f : f[x] > 0})
    IN  [KmerSet_new EXCEPT !.kmers_is_none = FALSE,
                            !.kmers = ks,
                            !.counts = [i \in 1..Len(ks) |-> f[ks[i]]]]

\* process_batch without the np.unique of the batch
process_batch_no_unique(self, batch, nseqs, nbases, nkmers) ==
    LET b == SubSeq(batch, 1, nkmers)
        new == [kmers |-> b, counts |-> [i \in DOMAIN b |-> 1]]
        merged == IF self.kmers_is_none THEN new
                  ELSE kmerizer_merge_counts(self.kmers, self.counts,
                                             new.kmers, new.counts)
    IN  [self EXCEPT !.n_seqs = @ + nseqs,
                     !.n_bases = @ + nbases,
                     !.n_kmers = @ + nkmers,
                     !.kmers_is_none = FALSE,
                     !.kmers = merged.kmers,
                     !.counts = merged.counts,
                     !.singletons = Some(count_singletons(merged.counts))]

\* process_batch taking the whole batch array in place of batch[:nkmers]
process_batch_whole_batch(self, batch, nseqs, nbases, nkmers) ==
    LET new == np_unique(batch)
        merged == IF self.kmers_is_none THEN new
                  ELSE kmerizer_merge_counts(self.kmers, self.counts,
                                             new.kmers, new.counts)
    IN  [self EXCEPT !.n_seqs = @ + nseqs,
                     !.n_bases = @ + nbases,
                     !.n_kmers = @ + nkmers,
                     !.kmers_is_none = FALSE,
                     !.kmers = merged.kmers,
                     !.counts = merged.counts,
                     !.singletons = Some(count_singletons(merged.counts))]

process_batch(self, batch, nseqs, nbases, nkmers) ==
    LET new == np_unique(SubSeq(batch, 1, nkmers))
        merged == IF self.kmers_is_none THEN new
                  ELSE kmerizer_merge_counts(self.kmers, self.counts,
                                             new.kmers, new.counts)
    IN  [self EXCEPT !.n_seqs = @ + nseqs,
                     !.n_bases = @ + nbases,
                     !.n_kmers = @ + nkmers,
                     !.kmers_is_none = FALSE,
                     !.kmers = merged.kmers,
                     !.counts = merged.counts,
                     !.singletons = Some(count_singletons(merged.counts))]

\* the 2-bit code of a base
BaseCode(base) ==
    CASE base = "A" -> 0
      [] base = "C" -> 1
      [] base = "G" -> 2
      [] base = "T" -> 3

\* the window w of k bases packed 2 bits per base, first base highest
PackKmer(w) == Sum([j \in DOMAIN w |-> BaseCode(w[j]) * 4 ^ (Len(w) - j)])

\* the reverse complement of the window, packed
PackRevComp(w) == Sum([j \in DOMAIN w |-> (3 - BaseCode(w[Len(w) + 1 - j])) * 4 ^ (Len(w) - j)])

\* kmerizer.kmerize(k, seq): the canonical k-mer of every window of seq
\* without a base other than A, C, G, T, from left to right
kmerizer_kmerize(k, seq) ==
    LET windows == [p \in 1..(IF Len(seq) >= k THEN Len(seq) - k + 1 ELSE 0) |->
                       SubSeq(seq, p, p + k - 1)]
        clean == SelectSeq(windows, LAMBDA w : Range(w) \subseteq {"A", "C", "G", "T"})
    IN  [p \in DOMAIN clean |-> Min(PackKmer(clean[p]), PackRevComp(clean[p]))]

\* kmerizer.kmerize_into_array(k, seq, batch, offset): the k-mers of seq are
\* written into batch from offset on; n is the number written
kmerizer_kmerize_into_array(k, seq, batch, offset) ==
    LET kmers == kmerizer_kmerize(k, seq)
    IN  [batch |-> [j \in DOMAIN batch |->
                       IF offset < j /\ j <= offset + Len(kmers) THEN kmers[j - offset]
                       ELSE batch[j]],
         n |-> Len(kmers)]

\* the loop of kmerize_file from record n on and the last process_batch,
\* with limit and prune off; fr holds batch, n_seqs, n_bases and n_kmers
RECURSIVE kmerize_file_from(_, _, _, _, _, _)
kmerize_file_from(self, k, seq_file, n, batch_size, fr) ==
    IF n > Len(seq_file)
    THEN process_batch(self, fr.batch, fr.n_seqs, fr.n_bases, fr.n_kmers)
    ELSE LET seq == seq_file[n]
             n_seqs == fr.n_seqs + 1
             n_bases == fr.n_bases + Len(seq)
             full == fr.n_kmers + Len(seq) > batch_size
             offset == IF full THEN 0 ELSE fr.n_kmers
             written == kmerizer_kmerize_into_array(k, seq, fr.batch, offset)
         IN  kmerize_file_from(
                 IF full THEN process_batch(self, fr.batch, n_seqs, n_bases, fr.n_kmers)
                 ELSE self,
                 k, seq_file, n + 1, batch_size,
                 [batch |-> written.batch,
                  n_seqs |-> IF full THEN 0 ELSE n_seqs,
                  n_bases |-> IF full THEN 0 ELSE n_bases,
                  n_kmers |-> offset + written.n])

\* KmerSet.kmerize_file(file_name, batch_size) on a set of k-mer length k;
\* seq_file is the sequence of the records of the file, empty the content
\* of the batch array before anything is written to it
kmerize_file(self, k, seq_file, batch_size, empty) ==
    kmerize_file_from(self, k, seq_file, 1, batch_size,
                      [batch |-> [j \in 1..batch_size |-> empty],
                       n_seqs |-> 0, n_bases |-> 0, n_kmers |-> 0])

prune_singletons(self) ==
    LET keepers == [i \in DOMAIN self.counts |-> self.counts[i] > 1]
    IN  [self EXCEPT !.kmers = MaskSelect(self.kmers, keepers),
                     !.counts = MaskSelect(self.counts, keepers)]

merge_kmerset(self, other) ==
    LET m == kmerizer_merge_counts(self.kmers, self.counts,
                                   other.kmers, other.counts)
    IN  [KmerSet_new EXCEPT !.kmers_is_none = FALSE,
                            !.kmers = m.kmers, !.counts = m.counts]

intersect(self, kmers) ==
    LET ix == kmerizer_intersect_ix(self.kmers, kmers)
    IN  [self EXCEPT !.counts = Gather(self.counts, ix),
                     !.kmers = Gather(self.kmers, ix)]

\* exclude keeping the k-mers it should remove
exclude_as_intersect(self, kmers) == intersect(self, kmers)

\* exclude gathering the counts at the positions of the excluded keys
exclude_wrong_ix(self, kmers) ==
    LET new_kmers == kmerizer_diff(self.kmers, kmers)
        ix == kmerizer_intersect_ix(self.kmers, kmers)
    IN  [self EXCEPT !.counts = Gather(self.counts, ix),
                     !.kmers = new_kmers]

exclude(self, kmers) ==
    LET new_kmers == kmerizer_diff(self.kmers, kmers)
        ix == kmerizer_intersect_ix(self.kmers, new_kmers)
    IN  [self EXCEPT !.counts = Gather(self.counts, ix),
                     !.kmers = new_kmers]

\* returns the pair <<self, other>> after the call: both are modified
mutual_intersect(self, other) ==
    LET ix1 == kmerizer_intersect_ix(self.kmers, other.kmers)
        self2 == [self EXCEPT !.kmers = Gather(self.kmers, ix1),
                              !.counts = Gather(self.counts, ix1)]
        ix2 == kmerizer_intersect_ix(other.kmers, self2.kmers)
        other2 == [other EXCEPT !.kmers = Gather(other.kmers, ix2),
                                !.counts = Gather(other.counts, ix2)]
    IN  <<self2, other2>>

\* frac = num/den
min_hash(self, num, den) ==
    LET nkmers == py_round(Len(self.kmers) * num, den)
        sorted == argsort(kmerizer_fnvhash_kmers(self.kmers))
        order == SubSeq(sorted, 1, Min(nkmers, Len(sorted)))
    IN  [self EXCEPT !.fingerprint =
                        Some(SortedSeq(Range(Gather(self.kmers, order))))]

\* max_freq is None or Some(n); "if max_freq:" is false for None and for 0
freq_filter(self, min_freq, max_freq) ==
    LET condition == [i \in DOMAIN self.counts |->
                        /\ self.counts[i] >= min_freq
                        /\ (max_freq # None /\ max_freq[1] # 0)
                              => self.counts[i] <= max_freq[1]]
    IN  [self EXCEPT !.kmers = MaskSelect(self.kmers, condition),
                     !.counts = MaskSelect(self.counts, condition)]

(***************************************************************************)
(* strainge createdb: the strain k-mer sets are stored as groups and merged*)
(* one after the other into the pan-genome k-mer set.                      *)
(***************************************************************************)
\* the value of pankmerset after the loop over a non-empty list of k-mer sets
RECURSIVE createdb_merge(_)
createdb_merge(ksets) ==
    IF Len(ksets) = 1 THEN ksets[1]
    ELSE merge_kmerset(createdb_merge(SubSeq(ksets, 1, Len(ksets) - 1)),
                       ksets[Len(ksets)])

\* KmerSet.spectrum: the frequencies (kmers) and the number of k-mers of each
spectrum(self) == np_unique(self.counts)

\* the loop of spectrum_min_max from index i (from 0) on, in the state st of
\* its variables; broke tells whether the loop ended by its break, and i is
\* the loop variable after the loop
RECURSIVE spectrum_scan(_, _, _, _, _, _)
spectrum_scan(freq, counts, delta, max_copy_number, i, st) ==
    IF i >= Len(freq) THEN [st EXCEPT !.i = Len(freq) - 1]
    ELSE
      LET count == counts[i + 1]
          zero == freq[i + 1] > st.last_freq + 1
      IN  IF st.have_max
             /\ (zero \/ freq[i + 1] > freq[st.max_index + 1] * max_copy_number)
          THEN [st EXCEPT !.i = i, !.broke = TRUE]
          ELSE
            LET next ==
                  IF st.have_min
                  THEN LET max_index == IF count > counts[st.max_index + 1]
                                        THEN i ELSE st.max_index
                       IN  [st EXCEPT
                              !.max_index = max_index,
                              !.have_max = @ \/ count * delta[2]
                                  < counts[max_index + 1] * (delta[2] - delta[1])]
                  ELSE IF count > 1000
                          /\ count * delta[2]
                               > counts[st.min_index + 1] * (delta[2] + delta[1])
                  THEN [st EXCEPT !.have_min = TRUE]
                  ELSE IF zero \/ count < counts[st.min_index + 1]
                  THEN [st EXCEPT !.min_index = i, !.max_index = i]
                  ELSE st
            IN  spectrum_scan(freq, counts, delta, max_copy_number, i + 1,
                              [next EXCEPT !.last_freq = freq[i + 1]])

\* the variables of spectrum_min_max after its loop
spectrum_scanned(freq, counts, delta, max_copy_number) ==
    spectrum_scan(freq, counts, delta, max_copy_number, 0,
                  [min_index |-> 0, max_index |-> 0, have_min |-> FALSE,
                   have_max |-> FALSE, last_freq |-> 0, i |-> 0, broke |-> FALSE])

\* spectrum_min_max without the test that min_index and max_index are not 0
spectrum_min_max_any_index(self, delta, max_copy_number) ==
    LET sp == spectrum(self)
        freq == sp.kmers
        counts == sp.counts
        st == spectrum_scanned(freq, counts, delta, max_copy_number)
    IN  IF /\ Len(freq) > 1
           /\ counts[st.max_index + 1] * delta[2]
                > counts[st.min_index + 1] * (delta[2] + delta[1])
        THEN Some(<<freq[st.min_index + 1], freq[st.max_index + 1], freq[st.i]>>)
        ELSE None

\* KmerSet.spectrum_min_max(delta, max_copy_number), delta a fraction: None
\* or the thresholds (freq[min_index], freq[max_index], freq[i - 1])
spectrum_min_max(self, delta, max_copy_number) ==
    LET sp == spectrum(self)
        freq == sp.kmers
        counts == sp.counts
        st == spectrum_scanned(freq, counts, delta, max_copy_number)
    IN  IF /\ st.min_index # 0
           /\ st.max_index # 0
           /\ counts[st.max_index + 1] * delta[2]
                > counts[st.min_index + 1] * (delta[2] + delta[1])
        THEN Some(<<freq[st.min_index + 1], freq[st.max_index + 1], freq[st.i]>>)
        ELSE None

\* KmerSet.spectrum_filter: the k-mer set after the call and the thresholds
\* returned
spectrum_filter(self) ==
    LET thresholds == spectrum_min_max(self, <<1, 2>>, 20)
    IN  [self |-> IF thresholds # None
                  THEN freq_filter(self, thresholds[1][1], Some(thresholds[1][3]))
                  ELSE self,
         thresholds |-> thresholds]

(***************************************************************************)
(* Strain search.  Floating point metrics are fixed-point numbers with     *)
(* FP units to 1.0 (every division truncates); thresholds compared with    *)
(* exact integer ratios are pairs <<num, den>>.                            *)
(***************************************************************************)
FP == 10000
ExpTerms == 40

\* FP * e^(num/den) by the power series, num >= 0, den > 0
RECURSIVE ExpSeries(_, _, _, _)
ExpSeries(num, den, n, term) ==
    IF n > ExpTerms \/ term = 0 THEN 0
    ELSE term + ExpSeries(num, den, n + 1, (term * num) \div (den * n))

\* FP * math.exp(-num/den)
exp_neg(num, den) == (FP * FP) \div ExpSeries(num, den, 1, FP)

\* strain names in the order h5py lists the groups of a file (by name)
StrainNames == <<"a", "b", "c", "d">>

NameIndex(name) == CHOOSE j \in DOMAIN StrainNames : StrainNames[j] = name

\* class Sample: a k-mer set loaded from its file, with the original totals
Sample_new(kmerset) ==
    [kset |-> kmerset,
     total_kmers |-> Sum(kmerset.counts),
     distinct_kmers |-> Len(kmerset.kmers)]

\* class StrainKmerSet
StrainKmerSet_new(name, kmerset) ==
    [name |-> name,
     kset |-> kmerset,
     distinct_kmers |-> Len(kmerset.kmers),
     total_kmers |-> Sum(kmerset.counts)]

\* class PanGenome: h5 is the file, a sequence of strain groups [name, kset]
\* in name order, whose top-level k-mer set is the one createdb stored
PanGenome_new(h5) ==
    [h5 |-> h5,
     kset |-> createdb_merge([j \in DOMAIN h5 |-> h5[j].kset]),
     strain_names |-> [j \in DOMAIN h5 |-> h5[j].name],
     strainCache |-> [n \in {} |-> 0]]

\* load_strain reading the strain from the file on every call
load_strain_uncached(pan, name) ==
    LET g == CHOOSE j \in DOMAIN pan.h5 : pan.h5[j].name = name
    IN  [pan EXCEPT !.strainCache =
           [n \in DOMAIN pan.strainCache \cup {name} |->
               IF n = name THEN StrainKmerSet_new(name, pan.h5[g].kset)
               ELSE pan.strainCache[n]]]

\* PanGenome.load_strain: the pan-genome after the call; the loaded strain is
\* strainCache[name] of the result
load_strain(pan, name) ==
    IF name \in DOMAIN pan.strainCache THEN pan
    ELSE LET g == CHOOSE j \in DOMAIN pan.h5 : pan.h5[j].name = name
         IN  [pan EXCEPT !.strainCache =
                [n \in DOMAIN pan.strainCache \cup {name} |->
                    IF n = name THEN StrainKmerSet_new(name, pan.h5[g].kset)
                    ELSE pan.strainCache[n]]]

\* twice np.median(counts) of a non-empty array
median2(counts) ==
    LET c == SortSeq(counts, LAMBDA a, b : a < b)
        n == Len(c)
    IN  IF n % 2 = 1 THEN 2 * c[(n + 1) \div 2]
        ELSE c[n \div 2] + c[n \div 2 + 1]

\* sample.kmers[sample.counts > np.median(sample.counts) * universal]
universal_excludes(skset, universal) ==
    IF skset.counts = <<>> THEN <<>>
    ELSE MaskSelect(skset.kmers,
                    [j \in DOMAIN skset.counts |->
                        skset.counts[j] * 2 * universal[2]
                            > median2(skset.counts) * universal[1]])

\* accounted < self.min_acct with <= in place of <
below_min_acct_le(min_acct, sample_count, sample_total) ==
    sample_count * min_acct[2] <= min_acct[1] * sample_total

\* accounted < self.min_acct, accounted = sample_count / sample.counts.sum()
below_min_acct(min_acct, sample_count, sample_total) ==
    sample_count * min_acct[2] < min_acct[1] * sample_total

\* StrainGST.score_strain on an already loaded strain: the strain after the
\* exclusion and the score, None or Some(Strain record)
score_strain_loaded(gst, pankset, strain, sample, excludes) ==
    LET sk == exclude(strain.kset, excludes)
        strain_kmerset == [strain EXCEPT !.kset = sk]
        ix_pg == kmerizer_intersect_ix(pankset.kmers, sk.kmers)
        strain_pan_counts == Gather(pankset.counts, ix_pg)
        kmers == kmerizer_intersect(sk.kmers, sample.kset.kmers)
        ix == kmerizer_intersect_ix(sk.kmers, kmers)
        counts == Gather(sk.counts, ix)
        pan_counts == Gather(strain_pan_counts, ix)
        ix_s == kmerizer_intersect_ix(sample.kset.kmers, kmers)
        sample_counts == Gather(sample.kset.counts, ix_s)
        sample_count == Sum(sample_counts)
        sample_total == Sum(sample.kset.counts)
        accounted == (sample_count * FP) \div sample_total
        covered == (Len(kmers) * FP) \div Len(sk.kmers)
        kmer_coverage == (sample_count * FP) \div Len(sample_counts)
        genome_coverage == (sample_count * FP) \div Sum(sk.counts)
        est_covered == FP - exp_neg(sample_count, Sum(sk.counts))
        evenness == (Len(kmers) * FP * FP) \div (Len(sk.kmers) * est_covered)
        score == (Len(kmers) * sample_count * Min(evenness, (FP * FP) \div evenness))
                    \div (Len(sk.kmers) * sample_total)
        \* the weights 1/pan_counts over their common denominator
        den == Prod(pan_counts)
        strain_total_weight == Sum([j \in DOMAIN counts |->
                                      counts[j] * (den \div pan_counts[j])])
        sample_total_weight == Sum([j \in DOMAIN sample_counts |->
                                      sample_counts[j] * (den \div pan_counts[j])])
        weighted_coverage == (sample_total_weight * FP) \div strain_total_weight
        specificity == (sample_total_weight * Sum(counts) * FP)
                          \div (sample_count * strain_total_weight)
        weighted_score == (score * Min(specificity, (FP * FP) \div specificity)) \div FP
        null == [strain |-> strain_kmerset, score |-> None]
    IN  IF Len(sk.kmers) * gst.min_frac[2] < gst.min_frac[1] * strain.distinct_kmers
        THEN null
        ELSE IF Len(kmers) = 0 THEN null
        ELSE IF below_min_acct(gst.min_acct, sample_count, sample_total) THEN null
        ELSE [strain |-> strain_kmerset,
              score |-> Some([strain |-> strain.name,
                              gkmers |-> strain.distinct_kmers,
                              ikmers |-> Len(sk.kmers),
                              skmers |-> Len(sample.kset.kmers),
                              cov |-> covered,
                              kcov |-> kmer_coverage,
                              gcov |-> genome_coverage,
                              acct |-> accounted,
                              even |-> evenness,
                              wcov |-> weighted_coverage,
                              spec |-> specificity,
                              score0 |-> score,
                              score |-> weighted_score])]

\* StrainGST.score_strain: the pan-genome after the call (the strain is loaded
\* into the cache and reduced there) and the score
score_strain(gst, pan, strain_name, sample, excludes) ==
    LET loaded == load_strain(pan, strain_name)
        r == score_strain_loaded(gst, loaded.kset, loaded.strainCache[strain_name],
                                 sample, excludes)
    IN  [pan |-> [loaded EXCEPT !.strainCache[strain_name] = r.strain],
         score |-> r.score]

\* list(map(score_strain, strains)): the pan-genome after all calls and the
\* list of scores
RECURSIVE score_all(_, _, _, _, _)
score_all(gst, pan, strains, sample, excludes) ==
    IF strains = <<>> THEN [pan |-> pan, scores |-> <<>>]
    ELSE LET first == score_strain(gst, pan, Head(strains), sample, excludes)
             rest == score_all(gst, first.pan, Tail(strains), sample, excludes)
         IN  [pan |-> rest.pan, scores |-> <<first.score>> \o rest.scores]

\* the generator: s for s in iter if s is not None and s.even >= min_evenness
survivors(gst, scores) ==
    LET keep == SelectSeq(scores, LAMBDA s : s # None /\ s[1].even >= gst.min_evenness)
    IN  [j \in DOMAIN keep |-> keep[j][1]]

\* list.sort(key=score, reverse=True): stable, elements of equal score keep
\* their order
RECURSIVE sort_by_score(_)
sort_by_score(l) ==
    IF l = <<>> THEN <<>>
    ELSE LET e == l[Len(l)]
             sorted == sort_by_score(SubSeq(l, 1, Len(l) - 1))
             pos == Cardinality({j \in DOMAIN sorted : sorted[j].score >= e.score})
         IN  SubSeq(sorted, 1, pos) \o <<e>> \o SubSeq(sorted, pos + 1, Len(sorted))

\* pos = str(i) if top == 1 else f"{i}.{t}": the numbers of the string
row_pos(top, i, t) == IF top = 1 THEN <<i>> ELSE <<i, t>>

\* the rows appended when top is ignored
new_rows_all(gst, i, strain_scores) ==
    [t \in 1..Len(strain_scores) |->
        [pos |-> row_pos(gst.top, i, t - 1), s |-> strain_scores[t]]]

\* the rows appended in iteration i
new_rows(gst, i, strain_scores) ==
    [t \in 1..Min(gst.top, Len(strain_scores)) |->
        [pos |-> row_pos(gst.top, i, t - 1), s |-> strain_scores[t]]]

(***************************************************************************)
(* Inputs.                                                                 *)
(***************************************************************************)
\* every well-formed k-mer set over Keys with counts up to MaxCount
LoadedKmerSets == {KmerSet_loaded(f) : f \in [Keys -> 0..MaxCount]}

\* every strictly ascending array of keys
KeyArrays == {SortedSeq(S) : S \in SUBSET Keys}

\* every batch buffer content of up to MaxBatch k-mers, in any order
Batches == UNION {[1..n -> Keys] : n \in 0..MaxBatch}

\* the fractions 0, 1/4, 1/2, 3/4, 1
Fractions == {<<n, 4>> : n \in 0..4}

(***************************************************************************)
(* Inputs of the strain search.                                            *)
(***************************************************************************)
\* a k-mer set given by the counts of the keys 0, 1, 2, ... (0: absent)
FromCounts(c) == KmerSet_loaded([x \in 0..(Len(c) - 1) |-> c[x + 1]])

\* the pan-genome files searched: the strain groups, named in order
Databases ==
    {[j \in DOMAIN d |-> [name |-> StrainNames[j], kset |-> FromCounts(d[j])]] :
        d \in {<< <<1, 0, 0>>, <<0, 1, 0>> >>,
               << <<1, 1, 0>>, <<0, 1, 1>> >>,
               << <<1, 1, 1>>, <<0, 1, 0>> >>,
               << <<2, 1, 0>>, <<0, 0, 1>> >>,
               << <<1, 0, 0>>, <<0, 1, 0>>, <<0, 0, 1>> >>,
               << <<1, 1, 0>>, <<1, 1, 0>>, <<0, 1, 1>> >>}}

\* the sample files searched: every k-mer set over the keys 0..2
SampleFiles == {FromCounts(c) : c \in [1..3 -> 0..MaxSampleCount]}

\* the threshold options of StrainGST
Thresholds ==
    {[min_score |-> 0, min_evenness |-> 0, min_frac |-> <<0, 1>>, min_acct |-> <<0, 1>>],
     [min_score |-> 5000, min_evenness |-> 0, min_frac |-> <<0, 1>>, min_acct |-> <<0, 1>>],
     [min_score |-> 0, min_evenness |-> 12000, min_frac |-> <<0, 1>>, min_acct |-> <<0, 1>>],
     [min_score |-> 0, min_evenness |-> 0, min_frac |-> <<1, 2>>, min_acct |-> <<0, 1>>],
     [min_score |-> 0, min_evenness |-> 0, min_frac |-> <<0, 1>>, min_acct |-> <<1, 2>>],
     [min_score |-> 100, min_evenness |-> 6000, min_frac |-> <<1, 100>>, min_acct |-> <<1, 100>>]}

Universals == {<<1, 1>>, <<10, 1>>}

Reverse(l) == [j \in DOMAIN l |-> l[Len(l) + 1 - j]]

\* the score_strains argument for a pan-genome with the given strain names
ScoreStrainsArgs(names) == {None, Some(Reverse(names)), Some(<<names[1]>>)}

(***************************************************************************)
(* State.                                                                  *)
(***************************************************************************)
VARIABLES
    kset,       \* the KmerSet the mutators are called on
    other,      \* the argument of the last call when that was mutual_intersect,
                \* as the call left it; a fresh KmerSet otherwise
    hist,       \* the last call: its name and arguments (for intersect and exclude
                \* also the receiver before the call)
    kmersets,   \* createdb: the k-mer sets read so far, in order
    h5,         \* createdb: the strain groups written to the output file
    pankmerset, \* createdb: None or Some(pan-genome k-mer set)
    saved,      \* createdb: None or Some(k-mer set saved at the top level)
    gst,        \* the StrainGST object (its options)
    score_strains, \* find_close_references: the score_strains argument
    sample_file,   \* the k-mer set in the sample file
    pangenome,  \* the PanGenome object
    sample,     \* the Sample object
    strains,    \* find_close_references: the strains to score
    excludes,   \* find_close_references: the k-mers to exclude next
    i,          \* find_close_references: the loop index
    scores,     \* find_close_references: the results of score_strain in the
                \* last iteration
    strain_scores, \* find_close_references: the sorted survivors of the last
                \* iteration
    result,     \* find_close_references: the StrainGSTResult
    pc,         \* where find_close_references is
    reference,  \* the Reference object: its scaffolds, in order
    coord_call, \* the last call of a coordinate method of the Reference
    call_data,  \* the VariantCallData object: its scaffolds_data, in order
    discarded_reads, \* VariantCaller.discarded_reads
    pileup,     \* the last pileup read given to _assess_read, with the
                \* call data and the discarded reads before the call, the
                \* query names of the reads counted so far and the number
                \* of reads of each column
    summary,    \* the records summarize has yielded
    caller,     \* the VariantCaller object (its options)
    vpc         \* where the variant caller is

ksVars == <<kset, other, hist>>
dbVars == <<kmersets, h5, pankmerset, saved>>
gstVars == <<gst, score_strains, sample_file, pangenome, sample, strains, excludes,
             i, scores, strain_scores, result, pc>>
vcVars == <<reference, coord_call, call_data, discarded_reads, pileup, summary,
           caller, vpc>>
vars == <<ksVars, dbVars, gstVars, vcVars>>

NoCall == [op |-> "init", arg |-> <<>>, num |-> 0, den |-> 1, pre |-> KmerSet_new]

Called(name, arg, num, den) ==
    [op |-> name, arg |-> arg, num |-> num, den |-> den, pre |-> KmerSet_new]

\* a call with a key array as argument: the receiver before the call is kept
CalledOn(name, arg) == [Called(name, arg, 0, 1) EXCEPT !.pre = kset]

\* no k-mer set under test
IdleKS == kset = KmerSet_new /\ other = KmerSet_new /\ hist = NoCall

\* no createdb run
IdleDB == kmersets = <<>> /\ h5 = <<>> /\ pankmerset = None /\ saved = None

\* no search
IdleGST ==
    /\ gst = None /\ score_strains = None /\ sample_file = None
    /\ pangenome = None /\ sample = None /\ strains = <<>> /\ excludes = <<>>
    /\ i = 0 /\ scores = <<>> /\ strain_scores = <<>> /\ result = None
    /\ pc = "idle"

\* no variant calling
IdleVC ==
    /\ reference = <<>> /\ coord_call = None /\ call_data = <<>>
    /\ discarded_reads = {} /\ pileup = None /\ summary = <<>>
    /\ caller = None /\ vpc = "idle"

(***************************************************************************)
(* The mutators of a k-mer set.                                            *)
(***************************************************************************)
InitKS ==
    /\ kset \in LoadedKmerSets \cup {KmerSet_new}
    /\ other = KmerSet_new
    /\ hist = NoCall
    /\ IdleDB
    /\ IdleGST
    /\ IdleVC

KS_process_batch ==
    \E batch \in Batches :
        /\ kset.n_kmers + Len(batch) <= MaxNKmers
        /\ kset' = process_batch(kset, batch, IF batch = <<>> THEN 0 ELSE 1,
                                 Len(batch), Len(batch))
        /\ hist' = Called("process_batch", <<>>, 0, 1)
        /\ other' = KmerSet_new
        /\ UNCHANGED <<dbVars, gstVars, vcVars>>

KS_prune_singletons ==
    /\ ~kset.kmers_is_none
    /\ kset' = prune_singletons(kset)
    /\ hist' = Called("prune_singletons", <<>>, 0, 1)
    /\ other' = KmerSet_new
    /\ UNCHANGED <<dbVars, gstVars, vcVars>>

KS_intersect ==
    \E kmers \in KeyArrays :
        /\ ~kset.kmers_is_none
        /\ kset' = intersect(kset, kmers)
        /\ hist' = CalledOn("intersect", kmers)
        /\ other' = KmerSet_new
        /\ UNCHANGED <<dbVars, gstVars, vcVars>>

KS_exclude ==
    \E kmers \in KeyArrays :
        /\ ~kset.kmers_is_none
        /\ kset' = exclude(kset, kmers)
        /\ hist' = CalledOn("exclude", kmers)
        /\ other' = KmerSet_new
        /\ UNCHANGED <<dbVars, gstVars, vcVars>>

KS_mutual_intersect ==
    \E o \in LoadedKmerSets :
        /\ ~kset.kmers_is_none
        /\ kset' = mutual_intersect(kset, o)[1]
        /\ other' = mutual_intersect(kset, o)[2]
        /\ hist' = Called("mutual_intersect", <<>>, 0, 1)
        /\ UNCHANGED <<dbVars, gstVars, vcVars>>

KS_freq_filter ==
    \E min_freq \in 0..(MaxCount + 1),
       max_freq \in {None} \cup {Some(n) : n \in 0..MaxCount} :
        /\ ~kset.kmers_is_none
        /\ kset' = freq_filter(kset, min_freq, max_freq)
        /\ hist' = Called("freq_filter", <<>>, 0, 1)
        /\ other' = KmerSet_new
        /\ UNCHANGED <<dbVars, gstVars, vcVars>>

KS_min_hash ==
    \E frac \in Fractions :
        /\ ~kset.kmers_is_none
        /\ kset' = min_hash(kset, frac[1], frac[2])
        /\ hist' = Called("min_hash", <<>>, frac[1], frac[2])
        /\ other' = KmerSet_new
        /\ UNCHANGED <<dbVars, gstVars, vcVars>>

\* the mutators of a k-mer set that is being filled and filtered
NextKS ==
    \/ KS_process_batch
    \/ KS_prune_singletons
    \/ KS_intersect
    \/ KS_exclude
    \/ KS_mutual_intersect
    \/ KS_freq_filter

SpecKS == InitKS /\ [][NextKS]_vars

\* the k-mer set with the spectrum sp, a sequence of pairs <<frequency,
\* number of k-mers>> of ascending frequencies
KmerSetOfSpectrum(sp) ==
    LET cum == [j \in 0..Len(sp) |-> Sum([m \in 1..j |-> sp[m][2]])]
    IN  [KmerSet_new EXCEPT
            !.kmers_is_none = FALSE,
            !.kmers = [x \in 1..cum[Len(sp)] |-> x - 1],
            !.counts = [x \in 1..cum[Len(sp)] |->
                          sp[CHOOSE j \in 1..Len(sp) : cum[j - 1] < x /\ x <= cum[j]][1]]]

\* the numbers of k-mers of one frequency in the spectra
SpectrumCounts == {2, 1001, 1600}

\* spectra of up to MaxSpectrumLen frequencies from 1 or 2 on, consecutive or
\* with one frequency missing after the first
Spectra ==
    UNION {{[j \in 1..n |-> <<fg[1] + j - 1 + (IF j > 1 THEN fg[2] ELSE 0), c[j]>>] :
              c \in [1..n -> SpectrumCounts],
              fg \in {<<1, 0>>, <<2, 0>>, <<1, 1>>}} :
           n \in 1..MaxSpectrumLen}

\* spectra with a valley and a peak, without a tail and with a tail with
\* or without a missing frequency
LongSpectra ==
    {<<<<1, 1001>>, <<2, 2>>, <<3, 1001>>, <<4, 1600>>>>,
     <<<<1, 1001>>, <<2, 2>>, <<3, 1001>>, <<4, 1600>>, <<5, 2>>, <<6, 2>>>>,
     <<<<1, 1001>>, <<2, 2>>, <<3, 1001>>, <<4, 1600>>, <<5, 2>>, <<7, 2>>>>}

InitSpectrum ==
    /\ \E sp \in Spectra \cup LongSpectra : kset = KmerSetOfSpectrum(sp)
    /\ other = KmerSet_new
    /\ hist = NoCall
    /\ IdleDB
    /\ IdleGST
    /\ IdleVC

\* thresholds = kmerset.spectrum_min_max()
KS_spectrum_min_max ==
    /\ ~kset.kmers_is_none
    /\ hist' = CalledOn("spectrum_min_max", spectrum_min_max(kset, <<1, 2>>, 20))
    /\ UNCHANGED <<kset, other, dbVars, gstVars, vcVars>>

\* thresholds = kmerset.spectrum_filter()
KS_spectrum_filter ==
    /\ ~kset.kmers_is_none
    /\ LET returned == spectrum_filter(kset)
       IN  /\ kset' = returned.self
           /\ hist' = CalledOn("spectrum_filter", returned.thresholds)
    /\ UNCHANGED <<other, dbVars, gstVars, vcVars>>

NextSpectrum ==
    \/ KS_spectrum_min_max
    \/ KS_spectrum_filter

SpecSpectrum == InitSpectrum /\ [][NextSpectrum]_vars

(***************************************************************************)
(* kmerize_file on a new KmerSet.                                          *)
(***************************************************************************)
\* the records of at least one base over A, C, T and N
Records == UNION {[1..n -> {"A", "C", "T", "N"}] : n \in 1..MaxBases}

RECURSIVE SeqFilesOf(_)
\* the files of records with at most n bases in all
SeqFilesOf(n) ==
    {<<>>} \cup {<<r>> \o f : r \in {x \in Records : Len(x) <= n},
                              f \in UNION {SeqFilesOf(n - m) : m \in 1..n}}

\* the number of bases of the file
BasesOf(seq_file) == Sum([n \in DOMAIN seq_file |-> Len(seq_file[n])])

\* the length of the longest record of the file
LongestOf(seq_file) ==
    IF seq_file = <<>> THEN 0
    ELSE CHOOSE l \in {Len(seq_file[n]) : n \in DOMAIN seq_file} :
             \A n \in DOMAIN seq_file : Len(seq_file[n]) <= l

InitKF ==
    /\ kset = KmerSet_new
    /\ other = KmerSet_new
    /\ hist = NoCall
    /\ IdleDB
    /\ IdleGST
    /\ IdleVC

\* kmerset.kmerize_file(file_name, batch_size) with a batch size of at
\* least the longest record
KS_kmerize_file ==
    /\ kset.kmers_is_none
    /\ \E seq_file \in {f \in SeqFilesOf(MaxBases) : BasesOf(f) <= MaxBases},
          k \in {1, 2}, empty \in {0, 3} :
       \E batch_size \in LongestOf(seq_file)..(BasesOf(seq_file) + 1) :
          /\ kset' = kmerize_file(kset, k, seq_file, batch_size, empty)
          /\ hist' = Called("kmerize_file", <<seq_file, batch_size, k>>, 0, 1)
    /\ UNCHANGED <<other, dbVars, gstVars, vcVars>>

NextKF == KS_kmerize_file

SpecKF == InitKF /\ [][NextKF]_vars

\* a loaded k-mer set that is sketched and then reduced
InitFP ==
    /\ kset \in LoadedKmerSets
    /\ other = KmerSet_new
    /\ hist = NoCall
    /\ IdleDB
    /\ IdleGST
    /\ IdleVC

NextFP ==
    \/ KS_min_hash
    \/ KS_prune_singletons
    \/ KS_intersect
    \/ KS_exclude
    \/ KS_mutual_intersect
    \/ KS_freq_filter

SpecFP == InitFP /\ [][NextFP]_vars

(***************************************************************************)
(* StrainGST.find_close_references.                                        *)
(***************************************************************************)
InitGST ==
    /\ IdleKS
    /\ IdleDB
    /\ IdleVC
    /\ \E db \in Databases, th \in Thresholds, u \in Universals,
          it \in 0..MaxIterations, tp \in 1..MaxTop :
        /\ pangenome = PanGenome_new(db)
        /\ gst = [iterations |-> it, top |-> tp, universal |-> u,
                  min_score |-> th.min_score, min_evenness |-> th.min_evenness,
                  min_frac |-> th.min_frac, min_acct |-> th.min_acct]
        /\ score_strains \in ScoreStrainsArgs([j \in DOMAIN db |-> db[j].name])
    /\ sample_file \in SampleFiles
    /\ sample = Sample_new(sample_file)
    /\ strains = <<>>
    /\ excludes = <<>>
    /\ i = 0
    /\ scores = <<>>
    /\ strain_scores = <<>>
    /\ result = None
    /\ pc = "call"

\* from the call to the head of the loop
FCR_Begin ==
    /\ pc = "call"
    /\ LET s == intersect(sample.kset, pangenome.kset.kmers)
           ex == universal_excludes(s, gst.universal)
           reduced == exclude(s, ex)
           sample_pan_kmers == Sum(reduced.counts)
       IN  /\ strains' = (IF score_strains # None /\ score_strains[1] # <<>>
                          THEN score_strains[1] ELSE pangenome.strain_names)
           /\ excludes' = ex
           /\ sample' = [sample EXCEPT !.kset = reduced]
           /\ result' = Some([pan_kmers |-> Len(reduced.kmers),
                              pan_kcov |-> <<sample_pan_kmers, Len(reduced.kmers)>>,
                              pan_pct |-> <<sample_pan_kmers * 100, sample.total_kmers>>,
                              strains |-> <<>>])
    /\ i' = 0
    /\ pc' = "loop"
    /\ UNCHANGED <<ksVars, dbVars, vcVars, gst, score_strains, sample_file, pangenome,
                   scores, strain_scores>>

\* an iteration up to the sort: every strain is scored (and reduced in the
\* cache), the survivors are sorted
FCR_Score ==
    /\ pc = "loop" /\ i < gst.iterations
    /\ LET scored == score_all(gst, pangenome, strains, sample, excludes)
       IN  /\ pangenome' = scored.pan
           /\ scores' = scored.scores
           /\ strain_scores' = sort_by_score(survivors(gst, scored.scores))
    /\ pc' = "sorted"
    /\ UNCHANGED <<ksVars, dbVars, vcVars, gst, score_strains, sample_file, sample, strains,
                   excludes, i, result>>

\* no strain survives: break
FCR_NoStrains ==
    /\ pc = "sorted"
    /\ strain_scores = <<>>
    /\ pc' = "done"
    /\ UNCHANGED <<ksVars, dbVars, vcVars, gst, score_strains, sample_file, pangenome, sample,
                   strains, excludes, i, scores, strain_scores, result>>

\* the best score is below min_score: break
FCR_BelowMinScore ==
    /\ pc = "sorted"
    /\ strain_scores # <<>>
    /\ strain_scores[1].score < gst.min_score
    /\ pc' = "done"
    /\ UNCHANGED <<ksVars, dbVars, vcVars, gst, score_strains, sample_file, pangenome, sample,
                   strains, excludes, i, scores, strain_scores, result>>

\* a strain is found: its rows are collected and its k-mers excluded
FCR_Winner ==
    /\ pc = "sorted"
    /\ strain_scores # <<>>
    /\ ~(strain_scores[1].score < gst.min_score)
    /\ LET winner == strain_scores[1]
           pan2 == load_strain(pangenome, winner.strain)
           winning_strain == pan2.strainCache[winner.strain]
       IN  /\ pangenome' = pan2
           /\ result' = Some([result[1] EXCEPT !.strains =
                                @ \o new_rows(gst, i, strain_scores)])
           /\ excludes' = winning_strain.kset.kmers
           /\ sample' = [sample EXCEPT !.kset =
                            exclude(sample.kset, winning_strain.kset.kmers)]
    /\ i' = i + 1
    /\ pc' = "loop"
    /\ UNCHANGED <<ksVars, dbVars, vcVars, gst, score_strains, sample_file, strains, scores,
                   strain_scores>>

\* the loop has run iterations times: return result
FCR_Return ==
    /\ pc = "loop" /\ i = gst.iterations
    /\ pc' = "done"
    /\ UNCHANGED <<ksVars, dbVars, vcVars, gst, score_strains, sample_file, pangenome, sample,
                   strains, excludes, i, scores, strain_scores, result>>

NextGST ==
    \/ FCR_Begin
    \/ FCR_Score
    \/ FCR_NoStrains
    \/ FCR_BelowMinScore
    \/ FCR_Winner
    \/ FCR_Return

SpecGST == InitGST /\ [][NextGST]_vars

(***************************************************************************)
(* strainge createdb (CreateDBSubcommand.__call__).                        *)
(***************************************************************************)
\* the k-mer set files that can be given: every k-mer set over the keys
\* 0..MaxDBKey with counts up to MaxStrainCount
StrainFiles == {KmerSet_loaded(f) : f \in [0..MaxDBKey -> 0..MaxStrainCount]}

InitDB ==
    /\ IdleKS
    /\ IdleGST
    /\ IdleVC
    /\ kmersets = <<>>
    /\ h5 = <<>>
    /\ pankmerset = None
    /\ saved = None

\* the first pass of the loop: the file is read, the strain group is written,
\* the k-mer set becomes the pan-genome k-mer set
DB_AddFirst ==
    /\ saved = None
    /\ Len(kmersets) < MaxStrains
    /\ pankmerset = None
    /\ \E kset_read \in StrainFiles :
        LET strain == [name |-> StrainNames[Len(kmersets) + 1], kset |-> kset_read]
        IN  /\ kmersets' = Append(kmersets, strain)
            /\ h5' = Append(h5, strain)
            /\ pankmerset' = Some(kset_read)
    /\ UNCHANGED <<ksVars, gstVars, vcVars, saved>>

\* a later pass: the file is read, the strain group is written, the k-mer set
\* is merged into the pan-genome k-mer set
DB_AddNext ==
    /\ saved = None
    /\ Len(kmersets) < MaxStrains
    /\ pankmerset # None
    /\ \E kset_read \in StrainFiles :
        LET strain == [name |-> StrainNames[Len(kmersets) + 1], kset |-> kset_read]
        IN  /\ kmersets' = Append(kmersets, strain)
            /\ h5' = Append(h5, strain)
            /\ pankmerset' = Some(merge_kmerset(pankmerset[1], kset_read))
    /\ UNCHANGED <<ksVars, gstVars, vcVars, saved>>

\* after the loop: optional min_hash() with the default fraction 0.002, then
\* save_hdf5 at the top level of the file
DB_Save ==
    /\ kmersets # <<>>
    /\ saved = None
    /\ \E fingerprint \in BOOLEAN :
        saved' = Some(IF fingerprint THEN min_hash(pankmerset[1], 2, 1000)
                      ELSE pankmerset[1])
    /\ UNCHANGED <<ksVars, gstVars, vcVars, kmersets, h5, pankmerset>>

NextDB ==
    \/ DB_AddFirst
    \/ DB_AddNext
    \/ DB_Save

SpecDB == InitDB /\ [][NextDB]_vars

(***************************************************************************)
(* class Reference: coordinates on a concatenated reference.               *)
(***************************************************************************)
ScaffoldNames == <<"s1", "s2", "s3", "s4">>

\* the outcome of a call: a returned value or a raised exception
Returned(v) == [kind |-> "return", value |-> v]
Raised(e) == [kind |-> "raise", value |-> e]

\* Reference.__init__: the scaffolds dictionary, in file order, as a sequence
\* of [id, length]; the ids of the records of the file are distinct
Reference_new(fasta) == fasta

\* self.lengths
Reference_lengths(ref) == [n \in DOMAIN ref |-> ref[n].length]

\* the loop of scaffold_coord from scaffold n on; falling off the end of the
\* loop returns None
RECURSIVE scaffold_coord_from(_, _, _, _)
scaffold_coord_from(ref, coord, n, offset) ==
    IF n > Len(ref) THEN Returned(None)
    ELSE IF coord < offset + Reference_lengths(ref)[n]
         THEN Returned(Some(<<ref[n].id, coord + 1 - offset>>))
         ELSE scaffold_coord_from(ref, coord, n + 1,
                                  offset + Reference_lengths(ref)[n])

\* Reference.scaffold_coord
scaffold_coord(ref, coord) == scaffold_coord_from(ref, coord, 1, 0)

\* Reference.scaffold_to_genome_coord: the loop runs over the keys of the
\* scaffolds dictionary, which are strings, so scaffold.name raises in the
\* first pass; without scaffolds the loop is empty and None is returned
scaffold_to_genome_coord(ref, scaffold_name, coord) ==
    IF Len(ref) = 0 THEN Returned(None)
    ELSE Raised("AttributeError")

\* the FASTA files: up to MaxScaffolds records of up to MaxScaffoldLen bases
Fastas ==
    UNION {{[n \in 1..k |-> [id |-> ScaffoldNames[n], length |-> l[n]]] :
                l \in [1..k -> 0..MaxScaffoldLen]} : k \in 0..MaxScaffolds}

InitRef ==
    /\ IdleKS /\ IdleDB /\ IdleGST
    /\ reference \in {Reference_new(f) : f \in Fastas}
    /\ coord_call = None
    /\ call_data = <<>> /\ discarded_reads = {} /\ pileup = None
    /\ summary = <<>> /\ caller = None /\ vpc = "idle"

Ref_scaffold_coord ==
    \E coord \in 0..Sum(Reference_lengths(reference)) :
        /\ coord_call' = Some([op |-> "scaffold_coord", name |-> "", coord |-> coord,
                               result |-> scaffold_coord(reference, coord)])
        /\ UNCHANGED <<ksVars, dbVars, gstVars, reference, call_data,
                       discarded_reads, pileup, summary, caller, vpc>>

Ref_scaffold_to_genome_coord ==
    \E n \in DOMAIN reference : \E coord \in 1..reference[n].length :
        /\ coord_call' = Some([op |-> "scaffold_to_genome_coord",
                               name |-> reference[n].id, coord |-> coord,
                               result |-> scaffold_to_genome_coord(
                                              reference, reference[n].id, coord)])
        /\ UNCHANGED <<ksVars, dbVars, gstVars, reference, call_data,
                       discarded_reads, pileup, summary, caller, vpc>>

NextRef ==
    \/ Ref_scaffold_coord
    \/ Ref_scaffold_to_genome_coord

SpecRef == InitRef /\ [][NextRef]_vars

(***************************************************************************)
(* Alleles and per-scaffold call data (ScaffoldCallData).  Position p of   *)
(* the code is element p + 1 of the arrays.                                *)
(***************************************************************************)
\* class Allele: the bit values of A, C, G, T, INS, DEL (N is 0)
Allele_A == 1
Allele_C == 2
Allele_G == 4
Allele_T == 8
Allele_INS == 16
Allele_DEL == 32

\* ALLELE_MASKS; ALLELE_INDEX maps ALLELE_MASKS[a] to a - 1
ALLELE_MASKS == <<Allele_A, Allele_C, Allele_G, Allele_T, Allele_INS, Allele_DEL>>

ALLELE_INDEX(allele) == CHOOSE a \in DOMAIN ALLELE_MASKS : ALLELE_MASKS[a] = allele

\* Allele.rc
Allele_rc(allele) ==
    IF allele = Allele_A THEN Allele_T
    ELSE IF allele = Allele_C THEN Allele_G
    ELSE IF allele = Allele_G THEN Allele_C
    ELSE IF allele = Allele_T THEN Allele_A
    ELSE allele

\* the alleles (indices into ALLELE_MASKS) whose bit is set in value
AllelesOf(value) == {a \in DOMAIN ALLELE_MASKS : (value \div ALLELE_MASKS[a]) % 2 = 1}

\* the value with the bits of the alleles b set, as the sum of the masks
MaskSum(b) == Sum([a \in DOMAIN ALLELE_MASKS |-> IF b[a] THEN ALLELE_MASKS[a] ELSE 0])

Zeros(n) == [p \in 1..n |-> 0]

\* ScaffoldCallData.__init__
ScaffoldCallData_new(name, length) ==
    [name |-> name,
     length |-> length,
     read_count |-> 0,
     refmask |-> Zeros(length),
     alleles_count |-> [p \in 1..length |-> Zeros(6)],
     alleles_qual |-> [p \in 1..length |-> Zeros(6)],
     bad |-> Zeros(length),
     lowmq_count |-> Zeros(length),
     lowmq |-> None,
     mq_sum |-> Zeros(length),
     strong |-> None,
     weak |-> None,
     coverage |-> None,
     high_coverage |-> None,
     mean_coverage |-> <<0, 1>>,
     median_coverage |-> <<0, 1>>,
     coverage_cutoff |-> 0,
     repetitiveness |-> <<0, 1>>,
     gaps |-> <<>>]

\* scipy.stats.poisson.ppf(0.9999999, m / 2) for m = 1..40
PoissonPPF ==
    <<7, 10, 11, 13, 14, 16, 17, 18, 19, 20, 21, 23,
      24, 25, 26, 27, 27, 28, 29, 30, 31, 32, 33, 34,
      35, 36, 37, 37, 38, 39, 40, 41, 42, 42, 43, 44, 45, 46, 46, 47>>

\* poisson_coverage_cutoff(mean) for mean = twice_mean / 2: the Poisson
\* quantile below 50, int(ceil(mean * 1.5 + 15)) from 50 on
poisson_coverage_cutoff(twice_mean) ==
    IF twice_mean < 100 THEN PoissonPPF[twice_mean]
    ELSE (3 * twice_mean + 60 + 3) \div 4

\* calculate_coverage adding the depth to lowmq_count in place
calculate_coverage_in_place(self) ==
    LET coverage == [p \in 1..self.length |->
                        Sum(self.alleles_count[p]) + self.lowmq_count[p]]
        twice_median == IF self.length = 0 THEN 0 ELSE median2(coverage)
        cutoff == poisson_coverage_cutoff(IF twice_median < 1 THEN 1 ELSE twice_median)
    IN  [self EXCEPT !.lowmq_count = coverage,
                     !.coverage = Some(coverage),
                     !.mean_coverage = <<Sum(coverage), self.length>>,
                     !.median_coverage = <<twice_median, 2>>,
                     !.coverage_cutoff = cutoff,
                     !.high_coverage = Some([p \in 1..self.length |->
                                                coverage[p] > cutoff])]

\* ScaffoldCallData.calculate_coverage
calculate_coverage(self) ==
    LET coverage == [p \in 1..self.length |->
                        Sum(self.alleles_count[p]) + self.lowmq_count[p]]
        twice_median == IF self.length = 0 THEN 0 ELSE median2(coverage)
        cutoff == poisson_coverage_cutoff(IF twice_median < 1 THEN 1 ELSE twice_median)
    IN  [self EXCEPT !.coverage = Some(coverage),
                     !.mean_coverage = <<Sum(coverage), self.length>>,
                     !.median_coverage = <<twice_median, 2>>,
                     !.coverage_cutoff = cutoff,
                     !.high_coverage = Some([p \in 1..self.length |->
                                                coverage[p] > cutoff])]

\* the test of call_alleles for a confirmed allele without the test of the
\* quality sum
is_confirmed_by_fraction(qual, qual_fraction, min_pileup_qual, min_qual_frac) ==
    qual_fraction[1] * min_qual_frac[2] > min_qual_frac[1] * qual_fraction[2]

\* the test of call_alleles for a confirmed allele with >= in place of >
is_confirmed_ge(qual, qual_fraction, min_pileup_qual, min_qual_frac) ==
    /\ qual > min_pileup_qual
    /\ qual_fraction[1] * min_qual_frac[2] >= min_qual_frac[1] * qual_fraction[2]

\* (quals > min_pileup_qual) & (qual_fraction > min_qual_frac) for one allele
\* of one position; the fractions are pairs <<numerator, denominator>>
is_confirmed(qual, qual_fraction, min_pileup_qual, min_qual_frac) ==
    /\ qual > min_pileup_qual
    /\ qual_fraction[1] * min_qual_frac[2] > min_qual_frac[1] * qual_fraction[2]

\* ScaffoldCallData.call_alleles.  numpy.divide(..., where=qual_sums > 0)
\* without out leaves the fractions of the positions with qual_sums = 0
\* uninitialized: they have the value garbage
call_alleles(self, min_pileup_qual, min_qual_frac, garbage) ==
    LET quals == self.alleles_qual
        qual_sums == [p \in 1..self.length |-> Sum(quals[p])]
        qual_fraction == [p \in 1..self.length |-> [a \in 1..6 |->
                            IF qual_sums[p] > 0 THEN <<quals[p][a], qual_sums[p]>>
                            ELSE garbage]]
        evidence == [p \in 1..self.length |-> [a \in 1..6 |-> quals[p][a] > 0]]
        weak == [p \in 1..self.length |-> MaskSum(evidence[p])]
        confirmed == [p \in 1..self.length |-> [a \in 1..6 |->
                        is_confirmed(quals[p][a], qual_fraction[p][a],
                                     min_pileup_qual, min_qual_frac)]]
        strong == [p \in 1..self.length |-> MaskSum(confirmed[p])]
    IN  [self EXCEPT
            !.weak = Some([p \in 1..self.length |->
                             IF self.high_coverage[1][p] THEN 0 ELSE weak[p]]),
            !.strong = Some([p \in 1..self.length |->
                             IF self.high_coverage[1][p] THEN 0 ELSE strong[p]])]

\* utils.lander_waterman(coverage) = 1 - exp(-coverage), in FP units, for the
\* coverage num / den; 0 / 0 is nan and so is the result, which is not > 0
\* from a coverage of 10 on exp(-coverage) is below one unit of FP
lander_waterman(num, den) ==
    IF den = 0 THEN 0
    ELSE IF num >= 10 * den THEN FP
    ELSE FP - exp_neg(num, den)

\* scale_min_gap_size(min_gap, mean_coverage)
scale_min_gap_size(min_gap, mean_coverage) ==
    LET lw == lander_waterman(mean_coverage[1], mean_coverage[2])
    IN  IF lw > 0 THEN (min_gap * FP) \div lw ELSE min_gap

\* utils.find_consecutive_groups(array, min_size): the maximal runs of equal
\* elements of at least min_size elements, in order; a group has the
\* positions [start, end) and the elements data
find_consecutive_groups(array, min_size) ==
    LET starts == {p \in DOMAIN array : p = 1 \/ array[p] # array[p - 1]}
        ends(b) == IF \E q \in starts : q > b
                   THEN CHOOSE q \in starts :
                            q > b /\ \A r \in starts : r > b => q <= r
                   ELSE Len(array) + 1
        runs == [n \in DOMAIN SortedSeq(starts) |->
                    LET b == SortedSeq(starts)[n]
                    IN  [start |-> b - 1, end |-> ends(b) - 1,
                         length |-> ends(b) - b,
                         data |-> SubSeq(array, b, ends(b) - 1)]]
    IN  SelectSeq(runs, LAMBDA g : g.length >= min_size)

\* find_gaps keeping every group, covered or not
find_gaps_all_groups(self, min_size0) ==
    LET min_size == scale_min_gap_size(min_size0, self.mean_coverage)
        depth == [p \in 1..self.length |-> Sum(self.alleles_count[p])]
        lowmq == [p \in 1..self.length |->
                    self.lowmq_count[p] > 1 /\ self.lowmq_count[p] > depth[p]]
        covered_array == [p \in 1..self.length |-> self.weak[1][p] > 0 \/ lowmq[p]]
    IN  [self EXCEPT !.lowmq = Some(lowmq),
                     !.gaps = find_consecutive_groups(covered_array, min_size)]

\* ScaffoldCallData.find_gaps
find_gaps(self, min_size0) ==
    LET min_size == scale_min_gap_size(min_size0, self.mean_coverage)
        depth == [p \in 1..self.length |-> Sum(self.alleles_count[p])]
        lowmq == [p \in 1..self.length |->
                    self.lowmq_count[p] > 1 /\ self.lowmq_count[p] > depth[p]]
        covered_array == [p \in 1..self.length |-> self.weak[1][p] > 0 \/ lowmq[p]]
    IN  [self EXCEPT !.lowmq = Some(lowmq),
                     !.gaps = SelectSeq(
                                 find_consecutive_groups(covered_array, min_size),
                                 LAMBDA group : \A p \in DOMAIN group.data :
                                                    ~group.data[p])]

(***************************************************************************)
(* class VariantCallData.  scaffolds_data is the dictionary in insertion   *)
(* order, as a sequence.  The counters are uint32 arrays; the model keeps  *)
(* them far below 2^32.                                                    *)
(***************************************************************************)
\* VariantCallData.__init__: scaffolds is a sequence of [id, length]
VariantCallData_new(scaffolds, min_gap_size) ==
    [min_gap_size |-> min_gap_size,
     reference_length |-> Sum([n \in DOMAIN scaffolds |-> scaffolds[n].length]),
     scaffolds_data |-> [n \in DOMAIN scaffolds |->
                            ScaffoldCallData_new(scaffolds[n].id, scaffolds[n].length)],
     mean_coverage |-> <<0, 1>>,
     median_coverage |-> <<0, 1>>,
     uniquely_mapped_reads |-> 0]

\* self.scaffolds_data[scaffold]: the place of the key in the dictionary
ScaffoldKey(self, scaffold) ==
    CHOOSE n \in DOMAIN self.scaffolds_data : self.scaffolds_data[n].name = scaffold

HasScaffold(self, scaffold) ==
    \E n \in DOMAIN self.scaffolds_data : self.scaffolds_data[n].name = scaffold

\* the element of an array of the given length that numpy index pos denotes:
\* a negative index counts from the end; 0 when the index is out of range
NumpyIndex(pos, length) ==
    IF 0 <= pos /\ pos < length THEN pos + 1
    ELSE IF pos < 0 /\ -length <= pos THEN length + pos + 1
    ELSE 0

\* arr[pos] += by
IncAt(arr, pos, by) == [arr EXCEPT ![NumpyIndex(pos, Len(arr))] = @ + by]

\* VariantCallData.inc_uniquely_mapped_reads
inc_uniquely_mapped_reads(self, scaffold) ==
    [self EXCEPT !.uniquely_mapped_reads = @ + 1,
                 !.scaffolds_data[ScaffoldKey(self, scaffold)].read_count = @ + 1]

\* VariantCallData.bad_read
bad_read(self, scaffold, pos) ==
    [self EXCEPT !.scaffolds_data[ScaffoldKey(self, scaffold)].bad = IncAt(@, pos, 1)]

\* VariantCallData.low_mapping_quality: positions past the end are ignored
low_mapping_quality(self, scaffold, pos) ==
    IF pos >= self.scaffolds_data[ScaffoldKey(self, scaffold)].length THEN self
    ELSE [self EXCEPT !.scaffolds_data[ScaffoldKey(self, scaffold)].lowmq_count =
                          IncAt(@, pos, 1)]

\* VariantCallData.update_mapping_quality
update_mapping_quality(self, scaffold, pos, mapping_quality) ==
    [self EXCEPT !.scaffolds_data[ScaffoldKey(self, scaffold)].mq_sum =
                     IncAt(@, pos, mapping_quality)]

\* good_read without the line that counts the read
good_read_no_count(self, scaffold, pos, allele, base_quality, mapping_quality, rc) ==
    LET base == IF rc THEN Allele_rc(allele) ELSE allele
        ix == ALLELE_INDEX(base)
        k == ScaffoldKey(self, scaffold)
        p == NumpyIndex(pos, self.scaffolds_data[k].length)
    IN  [self EXCEPT !.scaffolds_data[k].alleles_qual[p][ix] = @ + base_quality,
                     !.scaffolds_data[k].mq_sum[p] = @ + mapping_quality]

\* VariantCallData.good_read
good_read(self, scaffold, pos, allele, base_quality, mapping_quality, rc) ==
    LET base == IF rc THEN Allele_rc(allele) ELSE allele
        ix == ALLELE_INDEX(base)
        k == ScaffoldKey(self, scaffold)
        p == NumpyIndex(pos, self.scaffolds_data[k].length)
    IN  [self EXCEPT !.scaffolds_data[k].alleles_count[p][ix] = @ + 1,
                     !.scaffolds_data[k].alleles_qual[p][ix] = @ + base_quality,
                     !.scaffolds_data[k].mq_sum[p] = @ + mapping_quality]

\* VariantCallData.analyze_coverage
analyze_coverage(self) ==
    LET sd == [n \in DOMAIN self.scaffolds_data |->
                 calculate_coverage(self.scaffolds_data[n])]
        RECURSIVE concat(_)
        concat(n) == IF n = 0 THEN <<>> ELSE concat(n - 1) \o sd[n].coverage[1]
        all_coverage == concat(Len(sd))
    IN  [self EXCEPT !.scaffolds_data = sd,
                     !.mean_coverage = <<Sum(all_coverage), self.reference_length>>,
                     !.median_coverage =
                         <<IF all_coverage = <<>> THEN 0 ELSE median2(all_coverage), 2>>]

\* VariantCallData.call_alleles
VariantCallData_call_alleles(self, min_pileup_qual, min_qual_frac, garbage) ==
    [self EXCEPT !.scaffolds_data = [n \in DOMAIN @ |->
        call_alleles(@[n], min_pileup_qual, min_qual_frac, garbage)]]

\* VariantCallData.find_gaps
VariantCallData_find_gaps(self) ==
    [self EXCEPT !.scaffolds_data = [n \in DOMAIN @ |->
        find_gaps(@[n], self.min_gap_size)]]

\* the bits set in a value of at most 8 bits
Bits(value) == {k \in 0..7 : (value \div (2 ^ k)) % 2 = 1}

RECURSIVE BitSum(_)
BitSum(S) == IF S = {} THEN 0
             ELSE LET k == CHOOSE x \in S : TRUE IN 2 ^ k + BitSum(S \ {k})

\* x & y
BitAnd(x, y) == BitSum(Bits(x) \cap Bits(y))

\* ~x for a numpy.uint8
BitNot8(x) == 255 - x

\* numpy.count_nonzero of an array of integers
count_nonzero(array) == Cardinality({p \in DOMAIN array : array[p] # 0})

\* fractions <<numerator, denominator>> for the floating point divisions
FracAdd(x, y) == <<x[1] * y[2] + y[1] * x[2], x[2] * y[2]>>

RECURSIVE FracSum(_)
FracSum(fs) == IF fs = <<>> THEN <<0, 1>> ELSE FracAdd(Head(fs), FracSum(Tail(fs)))

FracDiv(x, y) == <<x[1] * y[2], x[2] * y[1]>>

\* utils.pct(numerator, denominator): the percentage, kept as its arguments
pct(numerator, denominator) == <<numerator, denominator>>

\* count_ts_tv(array1, array2)
count_ts_tv(array1, array2) ==
    LET transition_pairs == {<<Allele_A, Allele_G>>, <<Allele_G, Allele_A>>,
                             <<Allele_C, Allele_T>>, <<Allele_T, Allele_C>>}
        transitions == Cardinality({p \in DOMAIN array1 :
                            <<array1[p], array2[p]>> \in transition_pairs})
    IN  <<transitions, Len(array1) - transitions>>

\* the abundances of summarize: Raised("ZeroDivisionError") when a scaffold
\* has no unique length or no scaffold has a read, else the sequence of the
\* normalised abundances
summarize_abun(self) ==
    LET sds == self.scaffolds_data
        \* length - length * repetitiveness
        scaffold_uniq_len == [n \in DOMAIN sds |->
            <<sds[n].length * (sds[n].repetitiveness[2] - sds[n].repetitiveness[1]),
              sds[n].repetitiveness[2]>>]
        abun == [n \in DOMAIN sds |-> FracDiv(<<sds[n].read_count, 1>>,
                                              scaffold_uniq_len[n])]
        summed_abun == FracSum(abun)
    IN  IF \E n \in DOMAIN sds : scaffold_uniq_len[n][1] = 0
        THEN Raised("ZeroDivisionError")
        ELSE IF sds # <<>> /\ summed_abun[1] = 0
        THEN Raised("ZeroDivisionError")
        ELSE Returned([n \in DOMAIN sds |-> FracDiv(abun[n], summed_abun)])

\* strong & ~refmask & singles of summarize for a scaffold: a boolean array
\* in an & with an integer array counts as the integers 0 and 1
summarize_snps(scaffold) ==
    LET strong == scaffold.strong[1]
        singles == [p \in DOMAIN strong |->
                      strong[p] > 0 /\ BitAnd(strong[p], strong[p] - 1) = 0]
    IN  [p \in DOMAIN strong |->
            BitAnd(BitAnd(strong[p], BitNot8(scaffold.refmask[p])),
                   IF singles[p] THEN 1 ELSE 0)]

\* numpy.count_nonzero(singles) of summarize for a scaffold
num_singles(scaffold) ==
    Cardinality({p \in DOMAIN scaffold.strong[1] :
                    /\ scaffold.strong[1][p] > 0
                    /\ BitAnd(scaffold.strong[1][p], scaffold.strong[1][p] - 1) = 0})

\* the record summarize yields for a scaffold with the abundance abundance;
\* Raised("IndexError") when an index of snps is beyond the arrays
summarize_scaffold(scaffold, abundance) ==
    LET strong == scaffold.strong[1]
        length == scaffold.length
        confirmed == [p \in DOMAIN strong |-> BitAnd(strong[p], scaffold.refmask[p])]
        snps == summarize_snps(scaffold)
        multi == [p \in DOMAIN strong |->
                    IF strong[p] > 0 /\ BitAnd(strong[p], strong[p] - 1) > 0
                    THEN 1 ELSE 0]
        num_callable == count_nonzero(strong)
        summed_coverage ==
            Sum([p \in DOMAIN strong |->
                    IF scaffold.high_coverage[1][p] THEN 0 ELSE scaffold.coverage[1][p]])
            + Cardinality({p \in DOMAIN strong : scaffold.lowmq[1][p]})
        median_coverage ==
            median2([p \in DOMAIN strong |->
                        scaffold.coverage[1][p] + IF scaffold.lowmq[1][p] THEN 1 ELSE 0])
        num_confirmed == count_nonzero(confirmed)
        num_snps == count_nonzero(snps)
        num_multi == count_nonzero(multi)
        num_lowmq == Cardinality({p \in DOMAIN strong : scaffold.lowmq[1][p]})
        num_high_cov == Cardinality({p \in DOMAIN strong : scaffold.high_coverage[1][p]})
        \* refmask[snps], strong[snps]: snps is an array of the indices 0 and 1
        ts_tv == count_ts_tv([p \in DOMAIN snps |-> scaffold.refmask[snps[p] + 1]],
                             [p \in DOMAIN snps |-> strong[snps[p] + 1]])
    IN  IF \E p \in DOMAIN snps : snps[p] >= length
        THEN Raised("IndexError")
        ELSE Returned(
            [name |-> scaffold.name,
             length |-> length,
             repetitiveness |-> scaffold.repetitiveness,
             coverage |-> <<summed_coverage, length>>,
             median |-> <<median_coverage, 2>>,
             uReads |-> scaffold.read_count,
             abundance |-> abundance,
             callable |-> num_callable,
             callablePct |-> pct(num_callable, length),
             confirmed |-> num_confirmed,
             confirmedPct |-> pct(num_confirmed, num_callable),
             snps |-> num_snps,
             snpPct |-> pct(num_snps, num_callable),
             multi |-> num_multi,
             multiPct |-> pct(num_multi, num_callable),
             lowmq |-> num_lowmq,
             lowmqPct |-> pct(num_lowmq, length),
             high |-> num_high_cov,
             highPct |-> pct(num_high_cov, length),
             gapCount |-> Len(scaffold.gaps),
             gapLength |-> Sum([g \in DOMAIN scaffold.gaps |-> scaffold.gaps[g].length]),
             transitions |-> ts_tv[1],
             tsPct |-> pct(ts_tv[1], num_singles(scaffold)),
             transversions |-> ts_tv[2],
             tvPct |-> pct(ts_tv[2], num_singles(scaffold))])

\* the last record of summarize, for the genome as a whole
summarize_total(self, records) ==
    LET sds == self.scaffolds_data
        total(field) == Sum([n \in DOMAIN records |-> records[n][field]])
        total_singles == Sum([n \in DOMAIN records |-> num_singles(sds[n])])
    IN  [name |-> "TOTAL",
         length |-> self.reference_length,
         repetitiveness |->
             FracDiv(FracSum([n \in DOMAIN sds |-> sds[n].repetitiveness]),
                     <<Len(sds), 1>>),
         coverage |-> <<Sum([n \in DOMAIN records |-> records[n].coverage[1]]),
                        self.reference_length>>,
         median |-> self.median_coverage,
         uReads |-> self.uniquely_mapped_reads,
         abundance |-> <<1, 1>>,
         callable |-> total("callable"),
         callablePct |-> pct(total("callable"), self.reference_length),
         confirmed |-> total("confirmed"),
         confirmedPct |-> pct(total("confirmed"), total("callable")),
         snps |-> total("snps"),
         snpPct |-> pct(total("snps"), total("callable")),
         multi |-> total("multi"),
         multiPct |-> pct(total("multi"), total("callable")),
         lowmq |-> total("lowmq"),
         lowmqPct |-> pct(total("lowmq"), self.reference_length),
         high |-> total("high"),
         highPct |-> pct(total("high"), self.reference_length),
         gapCount |-> total("gapCount"),
         gapLength |-> total("gapLength"),
         transitions |-> total("transitions"),
         tsPct |-> pct(total("transitions"), total_singles),
         transversions |-> total("transversions"),
         tvPct |-> pct(total("transversions"), total_singles)]

\* the records summarize yields from scaffold n on, then the TOTAL record,
\* until an exception ends the generator
RECURSIVE summarize_from(_, _, _, _)
summarize_from(self, abun, n, records) ==
    IF n > Len(self.scaffolds_data)
    THEN IF Len(self.scaffolds_data) = 0
         THEN [records |-> records, raised |-> Some("ZeroDivisionError")]
         ELSE [records |-> Append(records, summarize_total(self, records)),
               raised |-> None]
    ELSE LET r == summarize_scaffold(self.scaffolds_data[n], abun[n])
         IN  IF r.kind = "raise"
             THEN [records |-> records, raised |-> Some(r.value)]
             ELSE summarize_from(self, abun, n + 1, Append(records, r.value))

\* VariantCallData.summarize, consumed to its end: the records yielded and
\* the exception that ended it, if any
summarize(self) ==
    LET abun == summarize_abun(self)
    IN  IF abun.kind = "raise"
        THEN [records |-> <<>>, raised |-> Some(abun.value)]
        ELSE summarize_from(self, abun.value, 1, <<>>)

(***************************************************************************)
(* The steps of VariantCaller.process after the pileups.                   *)
(***************************************************************************)
\* what the pileups can leave at one position: the reads counted per allele,
\* their summed base qualities, the reads of low mapping quality, the summed
\* mapping qualities of the good reads
PileupProfile(count, qual, lowmq_count, mq_sum) ==
    [count |-> count, qual |-> qual, lowmq_count |-> lowmq_count, mq_sum |-> mq_sum]

PileupProfiles ==
    {PileupProfile(<<0, 0, 0, 0, 0, 0>>, <<0, 0, 0, 0, 0, 0>>, 0, 0),
     PileupProfile(<<1, 0, 0, 0, 0, 0>>, <<30, 0, 0, 0, 0, 0>>, 0, 60),
     PileupProfile(<<2, 1, 0, 0, 0, 0>>, <<60, 20, 0, 0, 0, 0>>, 0, 180),
     PileupProfile(<<1, 0, 1, 0, 0, 0>>, <<30, 0, 30, 0, 0, 0>>, 0, 120),
     PileupProfile(<<17, 0, 0, 0, 0, 0>>, <<510, 0, 0, 0, 0, 0>>, 0, 1020),
     PileupProfile(<<0, 0, 0, 0, 0, 0>>, <<0, 0, 0, 0, 0, 0>>, 2, 0),
     PileupProfile(<<0, 0, 0, 0, 0, 0>>, <<0, 0, 0, 0, 0, 0>>, 1, 0),
     PileupProfile(<<0, 0, 0, 0, 0, 1>>, <<0, 0, 0, 0, 0, 30>>, 2, 60)}

\* the call data of a scaffold after the pileups
ScaffoldAfterPileups(name, refmask, read_count, repetitiveness, profiles) ==
    [ScaffoldCallData_new(name, Len(profiles)) EXCEPT
        !.refmask = refmask,
        !.read_count = read_count,
        !.repetitiveness = repetitiveness,
        !.alleles_count = [p \in DOMAIN profiles |-> profiles[p].count],
        !.alleles_qual = [p \in DOMAIN profiles |-> profiles[p].qual],
        !.lowmq_count = [p \in DOMAIN profiles |-> profiles[p].lowmq_count],
        !.mq_sum = [p \in DOMAIN profiles |-> profiles[p].mq_sum]]

\* the call data after the pileups, from the scaffolds
CallDataAfterPileups(scaffolds_data, min_gap_size) ==
    [VariantCallData_new([n \in DOMAIN scaffolds_data |->
                             [id |-> scaffolds_data[n].name,
                              length |-> scaffolds_data[n].length]],
                         min_gap_size) EXCEPT
        !.scaffolds_data = scaffolds_data,
        !.uniquely_mapped_reads =
            Sum([n \in DOMAIN scaffolds_data |-> scaffolds_data[n].read_count])]

\* VariantCaller.__init__
VariantCaller_new(min_qual, min_pileup_qual, min_qual_frac, min_mapping_quality, min_gap_size, max_num_mismatches) ==
    [min_qual |-> min_qual,
     min_pileup_qual |-> min_pileup_qual,
     min_qual_frac |-> min_qual_frac,
     min_mapping_quality |-> min_mapping_quality,
     min_gap_size |-> min_gap_size,
     max_num_mismatches |-> max_num_mismatches]

\* the values the uninitialized fractions of call_alleles can have
Garbage == {<<0, 1>>, <<1, 1>>}

InitCall ==
    /\ IdleKS /\ IdleDB /\ IdleGST
    /\ reference = <<>> /\ coord_call = None
    /\ discarded_reads = {} /\ pileup = None /\ summary = <<>>
    /\ \E min_pileup_qual \in {0, 30}, min_qual_frac \in {<<0, 1>>, <<1, 2>>},
          min_gap_size \in {1, 2} :
        /\ caller = Some(VariantCaller_new(5, min_pileup_qual, min_qual_frac, 5,
                                           min_gap_size, 0))
        /\ \E length \in 1..MaxCallLen : \E profiles \in [1..length -> PileupProfiles] :
              call_data = CallDataAfterPileups(
                              <<ScaffoldAfterPileups("s1", [p \in 1..length |-> Allele_A],
                                                     1, <<0, 1>>, profiles)>>,
                              min_gap_size)
    /\ vpc = "piled"

\* call_data.analyze_coverage()
VC_analyze_coverage ==
    /\ vpc = "piled"
    /\ call_data' = analyze_coverage(call_data)
    /\ vpc' = "covered"
    /\ UNCHANGED <<ksVars, dbVars, gstVars, reference, coord_call, discarded_reads,
                   pileup, summary, caller>>

\* call_data.call_alleles(self.min_pileup_qual, self.min_qual_frac)
VC_call_alleles ==
    /\ vpc = "covered"
    /\ \E garbage \in Garbage :
          call_data' = VariantCallData_call_alleles(
                           call_data, caller[1].min_pileup_qual,
                           caller[1].min_qual_frac, garbage)
    /\ vpc' = "called"
    /\ UNCHANGED <<ksVars, dbVars, gstVars, reference, coord_call, discarded_reads,
                   pileup, summary, caller>>

\* call_data.find_gaps()
VC_find_gaps ==
    /\ vpc = "called"
    /\ call_data' = VariantCallData_find_gaps(call_data)
    /\ vpc' = "finalized"
    /\ UNCHANGED <<ksVars, dbVars, gstVars, reference, coord_call, discarded_reads,
                   pileup, summary, caller>>

NextCall ==
    \/ VC_analyze_coverage
    \/ VC_call_alleles
    \/ VC_find_gaps

SpecCall == InitCall /\ [][NextCall]_vars

(***************************************************************************)
(* The pileups of VariantCaller.process.  A pileup read is a record of the *)
(* fields of the read and of its alignment that _assess_read uses; qual and*)
(* base are query_qualities[pos] and query_sequence[pos] at the position   *)
(* pos = query_position_or_next.  The XA tag is the sequence of its        *)
(* entries [scaffold, pos, cigar, nm], a cigar the sequence of its         *)
(* operations.                                                             *)
(***************************************************************************)
\* Allele.from_str
Allele_from_str(base) ==
    IF base = "A" THEN Allele_A
    ELSE IF base = "C" THEN Allele_C
    ELSE IF base = "G" THEN Allele_G
    ELSE IF base = "T" THEN Allele_T
    ELSE IF base = "INS" THEN Allele_INS
    ELSE IF base = "DEL" THEN Allele_DEL
    ELSE 0

\* the outcome of a method with side effects on the call data and on the
\* set of discarded reads; raised is the exception that ended it, if any
Outcome(data, discarded, raised) ==
    [call_data |-> data, discarded_reads |-> discarded, raised |-> raised]

\* the exception of indexing an array of a scaffold at pos, if any
IndexRaises(self, scaffold, pos) ==
    IF ~HasScaffold(self, scaffold) THEN Some("KeyError")
    ELSE LET length == self.scaffolds_data[ScaffoldKey(self, scaffold)].length
         IN  IF pos >= length \/ pos < -length THEN Some("IndexError") ELSE None

\* VariantCaller._alternative_locations(read, loc): the locations
\* <<scaffold, coord, rc>> in the order they are yielded
alternative_locations(read, loc) ==
    IF read.XA = None THEN <<>>
    ELSE
      LET xa == read.XA[1]
          nm == read.NM[1]
          read_rc == read.is_reverse
          offset == IF read_rc THEN read.reference_end - loc - 1
                    ELSE loc - read.reference_start
          kept == SelectSeq(xa, LAMBDA aln :
                     /\ {"S", "H", "D", "I"} \cap Range(aln.cigar) = {}
                     /\ aln.nm <= nm)
      IN  [n \in DOMAIN kept |->
             LET rc == kept[n].pos < 0
                 pos == (IF kept[n].pos < 0 THEN -kept[n].pos ELSE kept[n].pos) - 1
                 coord == IF rc THEN pos + read.query_length - offset - 1
                          ELSE pos + offset
             IN  <<kept[n].scaffold, coord, rc # read_rc>>]

\* call_data.low_mapping_quality(scaffold, pos) for the locations from n on
RECURSIVE low_mapping_quality_at(_, _, _)
low_mapping_quality_at(data, locations, n) ==
    IF n > Len(locations) THEN [call_data |-> data, raised |-> None]
    ELSE
      LET scaffold == locations[n][1]
          pos == locations[n][2]
      IN  IF ~HasScaffold(data, scaffold)
          THEN [call_data |-> data, raised |-> Some("KeyError")]
          ELSE IF pos >= data.scaffolds_data[ScaffoldKey(data, scaffold)].length
          THEN low_mapping_quality_at(data, locations, n + 1)
          ELSE IF IndexRaises(data, scaffold, pos) # None
          THEN [call_data |-> data, raised |-> IndexRaises(data, scaffold, pos)]
          ELSE low_mapping_quality_at(low_mapping_quality(data, scaffold, pos),
                                      locations, n + 1)

\* call_data.good_read(scaffold, pos, base, qual, mq, rc) for the locations
\* from n on
RECURSIVE good_read_at(_, _, _, _, _, _)
good_read_at(data, locations, n, base, qual, mq) ==
    IF n > Len(locations) THEN [call_data |-> data, raised |-> None]
    ELSE
      LET scaffold == locations[n][1]
          pos == locations[n][2]
      IN  IF IndexRaises(data, scaffold, pos) # None
          THEN [call_data |-> data, raised |-> IndexRaises(data, scaffold, pos)]
          ELSE good_read_at(good_read(data, scaffold, pos, base, qual, mq,
                                      locations[n][3]),
                            locations, n + 1, base, qual, mq)

\* VariantCaller._assess_alternative_locations
assess_alternative_locations(self, data, refpos, read) ==
    IF read.mapping_quality < self.min_mapping_quality
    THEN low_mapping_quality_at(data, alternative_locations(read, refpos), 1)
    ELSE [call_data |-> data, raised |-> None]

\* _assess_read without the test of the discarded reads
assess_read_no_discard_test(self, discarded, data, scaffold, refpos, read) ==
    LET bad == bad_read(data, scaffold, refpos)
        base == IF read.is_del THEN Allele_DEL
                ELSE IF read.indel > 0 THEN Allele_INS
                ELSE Allele_from_str(read.base)
        mq == read.mapping_quality
        tlen == read.template_length
    IN  IF read.is_paired /\ ~read.is_proper_pair
        THEN Outcome(bad, discarded \cup {read.query_name}, None)
        ELSE IF read.query_alignment_length # read.query_length
        THEN Outcome(bad, discarded \cup {read.query_name}, None)
        ELSE IF read.is_paired
                /\ (IF tlen < 0 THEN -tlen ELSE tlen) < read.query_length
        THEN Outcome(bad, discarded \cup {read.query_name}, None)
        ELSE IF /\ self.max_num_mismatches > 0
                /\ (IF read.NM # None THEN read.NM[1] ELSE 0)
                     > self.max_num_mismatches
        THEN Outcome(bad, discarded \cup {read.query_name}, None)
        ELSE IF read.qual < self.min_qual
        THEN Outcome(bad, discarded, None)
        ELSE IF base = 0
        THEN Outcome(bad, discarded, None)
        ELSE IF mq < self.min_mapping_quality
        THEN LET alt == assess_alternative_locations(
                            self, low_mapping_quality(data, scaffold, refpos),
                            refpos, read)
             IN  Outcome(alt.call_data, discarded, alt.raised)
        ELSE LET good == good_read(data, scaffold, refpos, base, read.qual, mq, FALSE)
                 alt == IF mq <= 3
                        THEN good_read_at(good, alternative_locations(read, refpos),
                                          1, base, read.qual, mq)
                        ELSE [call_data |-> good, raised |-> None]
             IN  Outcome(alt.call_data, discarded, alt.raised)

\* _assess_read adding the query name also for a base of low quality
assess_read_discard_low_qual(self, discarded, data, scaffold, refpos, read) ==
    IF read.query_name \in discarded
    THEN Outcome(bad_read(data, scaffold, refpos), discarded, None)
    ELSE LET outcome == assess_read_no_discard_test(self, discarded, data, scaffold,
                                                    refpos, read)
         IN  IF read.qual < self.min_qual
             THEN [outcome EXCEPT !.discarded_reads = @ \cup {read.query_name}]
             ELSE outcome

\* VariantCaller._assess_read(call_data, scaffold, refpos, read)
assess_read(self, discarded, data, scaffold, refpos, read) ==
    IF read.query_name \in discarded
    THEN Outcome(bad_read(data, scaffold, refpos), discarded, None)
    ELSE
    LET bad == bad_read(data, scaffold, refpos)
        base == IF read.is_del THEN Allele_DEL
                ELSE IF read.indel > 0 THEN Allele_INS
                ELSE Allele_from_str(read.base)
        mq == read.mapping_quality
        tlen == read.template_length
    IN  IF read.is_paired /\ ~read.is_proper_pair
        THEN Outcome(bad, discarded \cup {read.query_name}, None)
        ELSE IF read.query_alignment_length # read.query_length
        THEN Outcome(bad, discarded \cup {read.query_name}, None)
        ELSE IF read.is_paired
                /\ (IF tlen < 0 THEN -tlen ELSE tlen) < read.query_length
        THEN Outcome(bad, discarded \cup {read.query_name}, None)
        ELSE IF /\ self.max_num_mismatches > 0
                /\ (IF read.NM # None THEN read.NM[1] ELSE 0)
                     > self.max_num_mismatches
        THEN Outcome(bad, discarded \cup {read.query_name}, None)
        ELSE IF read.qual < self.min_qual
        THEN Outcome(bad, discarded, None)
        ELSE IF base = 0
        THEN Outcome(bad, discarded, None)
        ELSE IF mq < self.min_mapping_quality
        THEN LET alt == assess_alternative_locations(
                            self, low_mapping_quality(data, scaffold, refpos),
                            refpos, read)
             IN  Outcome(alt.call_data, discarded, alt.raised)
        ELSE LET good == good_read(data, scaffold, refpos, base, read.qual, mq, FALSE)
                 alt == IF mq <= 3
                        THEN good_read_at(good, alternative_locations(read, refpos),
                                          1, base, read.qual, mq)
                        ELSE [call_data |-> good, raised |-> None]
             IN  Outcome(alt.call_data, discarded, alt.raised)

\* a paired read of two bases aligned without a flaw to the two reference
\* positions of scaffold that end at refpos or, at position 0, start there
PileupRead(query_name, refpos) ==
    [query_name |-> query_name,
     is_paired |-> TRUE,
     is_proper_pair |-> TRUE,
     is_reverse |-> FALSE,
     query_length |-> 2,
     query_alignment_length |-> 2,
     template_length |-> 5,
     reference_start |-> IF refpos = 0 THEN 0 ELSE refpos - 1,
     reference_end |-> IF refpos = 0 THEN 2 ELSE refpos + 1,
     mapping_quality |-> 60,
     NM |-> Some(0),
     XA |-> None,
     qual |-> 30,
     base |-> "A",
     is_del |-> FALSE,
     indel |-> 0]

\* the reads with one flaw
FlawedReads(query_name, refpos) ==
    LET read == PileupRead(query_name, refpos)
    IN  {[read EXCEPT !.is_proper_pair = FALSE],
         [read EXCEPT !.query_alignment_length = 1],
         [read EXCEPT !.template_length = -1],
         [read EXCEPT !.NM = Some(2)],
         [read EXCEPT !.qual = 2],
         [read EXCEPT !.base = "N"]}

\* an XA tag with an alternative alignment on the forward strand, a clipped
\* one and one with more mismatches than the read
XA_forward ==
    <<[scaffold |-> "s1", pos |-> 1, cigar |-> <<"M">>, nm |-> 1],
      [scaffold |-> "s1", pos |-> 2, cigar |-> <<"S", "M">>, nm |-> 0],
      [scaffold |-> "s2", pos |-> 1, cigar |-> <<"M">>, nm |-> 2]>>

\* an XA tag with an alternative alignment on the reverse strand and one on
\* the forward strand of the short scaffold
XA_reverse ==
    <<[scaffold |-> "s1", pos |-> -1, cigar |-> <<"M">>, nm |-> 0],
      [scaffold |-> "s2", pos |-> 1, cigar |-> <<"M">>, nm |-> 1]>>

\* an XA tag with one alternative alignment, on the reverse strand at the
\* start of s1
XA_single == <<[scaffold |-> "s1", pos |-> -1, cigar |-> <<"M">>, nm |-> 0]>>

\* the reads of a mapping quality of at most 3 with an XA tag: aligned
\* without a gap, or to the three positions of s1 with a deletion, on either
\* strand
AmbiguousReads(query_name, refpos) ==
    LET read == [PileupRead(query_name, refpos) EXCEPT !.NM = Some(1)]
    IN  {[r EXCEPT !.mapping_quality = mq, !.XA = Some(xa)] :
            mq \in {1, 3}, xa \in {XA_forward, XA_reverse, XA_single},
            r \in {read,
                   [read EXCEPT !.reference_start = 0, !.reference_end = 3],
                   [read EXCEPT !.reference_start = 0, !.reference_end = 3,
                                !.is_reverse = TRUE]}}

\* the reads that can be in the pileup column refpos of scaffold s1
ReadsAt(refpos) ==
    IF refpos = 1
    THEN {[PileupRead("r1", 1) EXCEPT !.reference_start = 0, !.reference_end = 3,
                                       !.is_del = TRUE, !.mapping_quality = mq] :
             mq \in {1, 60}}
         \cup {[PileupRead("r2", 1) EXCEPT !.indel = 1]}
    ELSE FlawedReads("r1", refpos)
         \cup {PileupRead("r1", refpos), PileupRead("r2", refpos),
               [PileupRead("r2", refpos) EXCEPT !.is_paired = FALSE,
                                                !.template_length = 0,
                                                !.base = "G"]}
         \cup AmbiguousReads("r1", refpos)

\* the counters of the scaffolds other than bad
CountersOf(data) ==
    [n \in DOMAIN data.scaffolds_data |->
        <<data.scaffolds_data[n].alleles_count, data.scaffolds_data[n].alleles_qual,
          data.scaffolds_data[n].mq_sum, data.scaffolds_data[n].lowmq_count>>]

\* the pileup history: no read assessed yet; counted is the set of the query
\* names of the reads that changed a counter other than bad, entries the
\* number of pileup reads in each column of s1, with_xa whether one of them
\* had an XA tag
NoPileup == [n |-> 0, scaffold |-> "s1", refpos |-> 0, read |-> None,
             call_data |-> None, discarded_reads |-> {}, counted |-> {},
             entries |-> <<0, 0, 0>>, with_xa |-> FALSE]

\* call_data after load_reference and the abundance pass, no pileup yet
InitVC ==
    /\ IdleKS /\ IdleDB /\ IdleGST
    /\ reference = <<>> /\ coord_call = None /\ summary = <<>>
    /\ \E options \in {<<5, 1>>, <<2, 0>>} :
          caller = Some(VariantCaller_new(5, 0, <<1, 10>>, options[1], 2, options[2]))
    /\ call_data =
          [VariantCallData_new(<<[id |-> "s1", length |-> 3],
                                 [id |-> "s2", length |-> 1]>>, 2)
              EXCEPT !.scaffolds_data[1].refmask = <<Allele_A, Allele_C, Allele_A>>,
                     !.scaffolds_data[2].refmask = <<Allele_G>>]
    /\ discarded_reads = {}
    /\ pileup = NoPileup
    /\ vpc = "pileups"

\* self._assess_read(call_data, scaffold, refpos, read) for the next read of
\* the pileup; the columns come in the order of their positions
VC_assess_read ==
    /\ vpc = "pileups"
    /\ pileup.n < MaxPileups
    /\ \E refpos \in pileup.refpos..2 : \E read \in ReadsAt(refpos) :
          LET outcome == assess_read(caller[1], discarded_reads, call_data,
                                     "s1", refpos, read)
          IN  /\ call_data' = outcome.call_data
              /\ discarded_reads' = outcome.discarded_reads
              /\ vpc' = IF outcome.raised = None THEN "pileups" ELSE "raised"
              /\ pileup' = [n |-> pileup.n + 1, scaffold |-> "s1", refpos |-> refpos,
                            read |-> Some(read), call_data |-> Some(call_data),
                            discarded_reads |-> discarded_reads,
                            counted |-> IF CountersOf(outcome.call_data)
                                             = CountersOf(call_data)
                                        THEN pileup.counted
                                        ELSE pileup.counted \cup {read.query_name},
                            entries |-> [pileup.entries EXCEPT ![refpos + 1] = @ + 1],
                            with_xa |-> pileup.with_xa \/ read.XA # None]
    /\ UNCHANGED <<ksVars, dbVars, gstVars, reference, coord_call, summary, caller>>

NextVC == VC_assess_read

SpecVC == InitVC /\ [][NextVC]_vars

(***************************************************************************)
(* VariantCaller.process as a whole: the abundance pass over the           *)
(* alignments, the pileups, and the three steps on the call data.  vpc is  *)
(* "fetch" in the first loop, "pileups" in the second, then "piled",       *)
(* "covered", "called" and, when process returns, "finalized".             *)
(***************************************************************************)
\* the test of the first loop of process: the alignment counts as a uniquely
\* mapped read
uniquely_mapped(self, alignment) ==
    LET tlen == alignment.template_length
    IN  /\ ~(alignment.mapping_quality < 3 \/ alignment.XA # None)
        /\ ~(alignment.is_paired /\ ~alignment.is_proper_pair)
        /\ alignment.query_alignment_length = alignment.query_length
        /\ ~(alignment.is_paired
             /\ (IF tlen < 0 THEN -tlen ELSE tlen) < alignment.query_length)
        /\ ~(/\ self.max_num_mismatches > 0
             /\ (IF alignment.NM # None THEN alignment.NM[1] ELSE 0)
                  > self.max_num_mismatches)

\* the alignments bamfile.fetch() can yield
Alignments ==
    {PileupRead("r1", 1), [PileupRead("r1", 1) EXCEPT !.mapping_quality = 2],
     [PileupRead("r2", 1) EXCEPT !.NM = Some(2)]}

\* process is called on a caller that is new or has processed a file before
InitProcess ==
    /\ IdleKS /\ IdleDB /\ IdleGST
    /\ reference = <<>> /\ coord_call = None /\ summary = <<>>
    /\ \E options \in {<<5, 1>>, <<2, 0>>} :
          caller = Some(VariantCaller_new(5, 0, <<1, 10>>, options[1], 2, options[2]))
    /\ call_data =
          [VariantCallData_new(<<[id |-> "s1", length |-> 3],
                                 [id |-> "s2", length |-> 1]>>, 2)
              EXCEPT !.scaffolds_data[1].refmask = <<Allele_A, Allele_C, Allele_A>>,
                     !.scaffolds_data[2].refmask = <<Allele_G>>]
    /\ discarded_reads \in {{}, {"r1"}}
    /\ pileup = NoPileup
    /\ vpc = "fetch"

\* one alignment of the first loop
VC_count_alignment ==
    /\ vpc = "fetch"
    /\ call_data.uniquely_mapped_reads < MaxAlignments
    /\ \E alignment \in Alignments, scaffold \in {"s1", "s2"} :
          call_data' = IF uniquely_mapped(caller[1], alignment)
                       THEN inc_uniquely_mapped_reads(call_data, scaffold)
                       ELSE call_data
    /\ UNCHANGED <<ksVars, dbVars, gstVars, reference, coord_call, discarded_reads,
                   pileup, summary, caller, vpc>>

\* the first loop ends: self.discarded_reads = set()
VC_begin_pileups ==
    /\ vpc = "fetch"
    /\ discarded_reads' = {}
    /\ vpc' = "pileups"
    /\ UNCHANGED <<ksVars, dbVars, gstVars, reference, coord_call, call_data,
                   pileup, summary, caller>>

\* the second loop ends
VC_end_pileups ==
    /\ vpc = "pileups"
    /\ vpc' = "piled"
    /\ UNCHANGED <<ksVars, dbVars, gstVars, reference, coord_call, call_data,
                   discarded_reads, pileup, summary, caller>>

NextProcess ==
    \/ VC_count_alignment
    \/ VC_begin_pileups
    \/ VC_assess_read
    \/ VC_end_pileups
    \/ VC_analyze_coverage
    \/ VC_call_alleles
    \/ VC_find_gaps

SpecProcess == InitProcess /\ [][NextProcess]_vars

(***************************************************************************)
(* VariantCallData.summarize on the call data process returns.             *)
(***************************************************************************)
\* a position with one good read of base quality 30 and mapping quality 60
\* for each of the alleles
ReadsOf(alleles) ==
    PileupProfile([a \in 1..6 |-> IF ALLELE_MASKS[a] \in alleles THEN 1 ELSE 0],
                  [a \in 1..6 |-> IF ALLELE_MASKS[a] \in alleles THEN 30 ELSE 0],
                  0, 60 * Cardinality(alleles))

\* the call data process returns for the call data after the pileups
Finalized(self, min_pileup_qual, min_qual_frac, garbage) ==
    VariantCallData_find_gaps(
        VariantCallData_call_alleles(analyze_coverage(self), min_pileup_qual,
                                     min_qual_frac, garbage))

SumProfiles ==
    {ReadsOf({}), ReadsOf({Allele_A}), ReadsOf({Allele_C}), ReadsOf({Allele_G}),
     ReadsOf({Allele_A, Allele_C})}

\* one scaffold with any alleles called, alone or before a second scaffold
InitSum ==
    /\ IdleKS /\ IdleDB /\ IdleGST
    /\ reference = <<>> /\ coord_call = None
    /\ discarded_reads = {} /\ pileup = None /\ summary = <<>>
    /\ caller = Some(VariantCaller_new(5, 0, <<1, 10>>, 5, 2, 0))
    /\ \E length \in 1..MaxSumLen, with_second \in BOOLEAN, garbage \in Garbage :
       \E refmask \in [1..length -> {Allele_A, Allele_G}],
          profiles \in [1..length -> SumProfiles] :
          LET first == ScaffoldAfterPileups("s1", refmask, 1, <<0, 1>>, profiles)
              second == ScaffoldAfterPileups(
                            "s2", <<Allele_C, Allele_C>>, 1, <<0, 1>>,
                            <<ReadsOf({Allele_C}), ReadsOf({Allele_T})>>)
          IN  call_data = Finalized(
                  CallDataAfterPileups(IF with_second THEN <<first, second>>
                                       ELSE <<first>>, 2),
                  0, <<1, 10>>, garbage)
    /\ vpc = "finalized"

\* scaffolds with any read counts and repetitiveness
InitAbun ==
    /\ IdleKS /\ IdleDB /\ IdleGST
    /\ reference = <<>> /\ coord_call = None
    /\ discarded_reads = {} /\ pileup = None /\ summary = <<>>
    /\ caller = Some(VariantCaller_new(5, 0, <<1, 10>>, 5, 2, 0))
    /\ \E n \in 1..MaxAbunScaffolds, garbage \in Garbage :
       \E length \in [1..n -> 1..2], read_count \in [1..n -> 0..MaxReadCount],
          repetitiveness \in [1..n -> {<<0, 1>>, <<1, 2>>, <<1, 1>>}] :
          call_data = Finalized(
              CallDataAfterPileups(
                  [j \in 1..n |->
                      ScaffoldAfterPileups(
                          ScaffoldNames[j], [p \in 1..length[j] |-> Allele_A],
                          read_count[j], repetitiveness[j],
                          [p \in 1..length[j] |-> ReadsOf({Allele_A})])], 2),
              0, <<1, 10>>, garbage)
    /\ vpc = "finalized"

\* the summary is written: summarize is consumed to its end
VC_summarize ==
    /\ vpc = "finalized"
    /\ summary' = summarize(call_data)
    /\ vpc' = "summarized"
    /\ UNCHANGED <<ksVars, dbVars, gstVars, reference, coord_call, call_data,
                   discarded_reads, pileup, caller>>

NextSum == VC_summarize

SpecSum == InitSum /\ [][NextSum]_vars

SpecAbun == InitAbun /\ [][NextSum]_vars

(***************************************************************************)
(* Properties of the k-mer set.                                            *)
(***************************************************************************)
WellFormed(ks) ==
    /\ IsStrictlySorted(ks.kmers)
    /\ Len(ks.kmers) = Len(ks.counts)
    /\ \A m \in DOMAIN ks.counts : ks.counts[m] >= 1

\* the count stored in ks for key x
CountOf(ks, x) == ks.counts[CHOOSE m \in DOMAIN ks.kmers : ks.kmers[m] = x]

\* C1: after every mutator (process_batch, prune_singletons, intersect,
\* exclude, mutual_intersect, freq_filter) kmers is strictly ascending,
\* len(kmers) = len(counts) and every count is at least 1; the same holds of
\* the second operand of mutual_intersect.
C1_MutatorsKeepWellFormed == WellFormed(kset) /\ WellFormed(other)

C1_Witness ==
    /\ hist.op = "process_batch"
    /\ Len(kset.kmers) >= 2
    /\ \E m \in DOMAIN kset.counts : kset.counts[m] >= 2

\* s keeps exactly the keys of pre that satisfy keep, in the order of pre,
\* each with the count it has in pre
Restricts(s, pre, keep(_)) ==
    /\ Range(s.kmers) = {x \in Range(pre.kmers) : keep(x)}
    /\ Len(s.kmers) = Cardinality(Range(s.kmers))
    /\ Len(s.counts) = Len(s.kmers)
    /\ \A m, n \in DOMAIN s.kmers :
          m < n => \E a, b \in DOMAIN pre.kmers :
                     a < b /\ pre.kmers[a] = s.kmers[m] /\ pre.kmers[b] = s.kmers[n]
    /\ \A m \in DOMAIN s.kmers : s.counts[m] = CountOf(pre, s.kmers[m])

\* C8: S.intersect(B) keeps exactly the keys of S in B, S.exclude(B) exactly
\* the keys of S not in B, in S's order and with the counts they had in S;
\* the two key sets are disjoint and their union is the key set of S.
C8_IntersectExcludePartition ==
    hist.op \in {"intersect", "exclude"} =>
        LET B == Range(hist.arg)
            I == intersect(hist.pre, hist.arg)
            E == exclude(hist.pre, hist.arg)
        IN  /\ kset = (IF hist.op = "intersect" THEN I ELSE E)
            /\ Restricts(I, hist.pre, LAMBDA x : x \in B)
            /\ Restricts(E, hist.pre, LAMBDA x : x \notin B)
            /\ Range(I.kmers) \cap Range(E.kmers) = {}
            /\ Range(I.kmers) \cup Range(E.kmers) = Range(hist.pre.kmers)

C8_Witness ==
    /\ hist.op = "exclude"
    /\ Len(kset.kmers) >= 1
    /\ Len(kset.kmers) < Len(hist.pre.kmers)
    /\ kset.kmers[1] # hist.pre.kmers[1]
    /\ kset.counts[1] >= 2

\* C9 (as stated): whenever a k-mer set has a fingerprint, the fingerprint is
\* strictly ascending and each of its elements is an element of kmers, also
\* after later mutators.
C9_FingerprintSortedSubset ==
    kset.fingerprint # None =>
        /\ IsStrictlySorted(kset.fingerprint[1])
        /\ Range(kset.fingerprint[1]) \subseteq Range(kset.kmers)

Abs(x) == IF x < 0 THEN -x ELSE x

\* n is num/den rounded to the nearest integer, a tie to the even one
IsRounded(n, num, den) ==
    \/ 2 * Abs(num - n * den) < den
    \/ 2 * Abs(num - n * den) = den /\ n % 2 = 0

\* C10: right after min_hash(f) the fingerprint holds exactly the
\* n = round(f * |kmers|) k-mers of the set with the smallest hash values, in
\* ascending k-mer order; with f = 1 it equals kmers.
C10_MinHashSelectsSmallest ==
    hist.op = "min_hash" =>
        /\ kset.fingerprint # None
        /\ LET fp == kset.fingerprint[1]
           IN  /\ IsRounded(Len(fp), Len(kset.kmers) * hist.num, hist.den)
               /\ IsStrictlySorted(fp)
               /\ Range(fp) \subseteq Range(kset.kmers)
               /\ \A x \in Range(fp) : \A y \in Range(kset.kmers) \ Range(fp) :
                     fnvhash(x) < fnvhash(y)
               /\ hist.num = hist.den => fp = kset.kmers

C10_Witness ==
    /\ hist.op = "min_hash"
    /\ kset.fingerprint # None
    /\ Len(kset.fingerprint[1]) >= 1
    /\ Len(kset.fingerprint[1]) < Len(kset.kmers)
    /\ kset.fingerprint[1][1] # kset.kmers[1]

(***************************************************************************)
(* Properties of the strain search.                                        *)
(***************************************************************************)
\* the strain rows collected so far
Rows == IF result = None THEN <<>> ELSE result[1].strains

\* the k-mer set of a strain as stored in the pan-genome file
OrigKset(name) ==
    pangenome.h5[CHOOSE n \in DOMAIN pangenome.h5 : pangenome.h5[n].name = name].kset

KeySet(ks) == Range(ks.kmers)

\* the sum of the counts ks has for the keys in S
CountSum(ks, S) ==
    Sum([n \in DOMAIN ks.kmers |-> IF ks.kmers[n] \in S THEN ks.counts[n] ELSE 0])

\* the universal k-mers of the sample, from the files searched
UniversalKeys ==
    Range(universal_excludes(intersect(sample_file, pangenome.kset.kmers),
                             gst.universal))

\* the rows of the winners: the first row of every iteration
WinnerRows == {n \in DOMAIN Rows : Rows[n].pos[Len(Rows[n].pos)] = 0 \/ gst.top = 1}

\* the k-mers the winners have in the pan-genome file
WinnerKeys == UNION {KeySet(OrigKset(Rows[n].s.strain)) : n \in WinnerRows}

\* the scores of the last iteration that survive the filter
SurvivorIdx ==
    {n \in DOMAIN scores : scores[n] # None /\ scores[n][1].even >= gst.min_evenness}

\* a strain survived and the best score is at least min_score
Emits == \E n \in SurvivorIdx : scores[n][1].score >= gst.min_score

\* C2: find_close_references runs at most iterations iterations; an
\* iteration emits rows only if some strain has a non-null score with
\* even >= min_evenness and the best such score is >= min_score, and then
\* exactly min(top, number of survivors) rows, best first, in non-increasing
\* score order; at the first iteration where this fails the search stops
\* and no later row is emitted; with iterations = 0 no row is emitted.
C2_IterationRule ==
    [][/\ i' <= gst'.iterations
       /\ gst'.iterations = 0 => Rows' = <<>>
       /\ pc = "done" => (pc' = "done" /\ Rows' = Rows)
       /\ IF pc = "sorted"
          THEN LET added == SubSeq(Rows', Len(Rows) + 1, Len(Rows'))
               IN  IF Emits
                   THEN /\ SubSeq(Rows', 1, Len(Rows)) = Rows
                        /\ Len(added) = Min(gst.top, Cardinality(SurvivorIdx))
                        /\ \A n \in DOMAIN added :
                              added[n].s \in {scores[m][1] : m \in SurvivorIdx}
                        /\ \A n \in 1..(Len(added) - 1) :
                              added[n].s.score >= added[n + 1].s.score
                        /\ \A m \in SurvivorIdx :
                              \/ scores[m][1].score <= added[Len(added)].s.score
                              \/ \E n \in DOMAIN added : added[n].s = scores[m][1]
                        /\ pc' = "loop"
                        /\ i' = i + 1
                   ELSE Rows' = Rows /\ pc' = "done"
          ELSE Rows' = Rows]_vars

\* the search stopped in its second iteration after the first emitted two rows
C2_Witness ==
    /\ pc = "done" /\ i = 1 /\ gst.iterations = 2 /\ gst.top = 2
    /\ Len(Rows) = 2
    /\ Len(scores) = 3

\* C3: after every iteration that selects a winner the sample has no k-mer
\* of the winner, and every strain scored has had the universal k-mers and
\* the k-mers of all earlier winners removed before its metrics are
\* computed, gkmers staying at the strain's original distinct k-mer count.
C3_WinnersAndExcludesRemoved ==
    pc \in {"loop", "sorted", "done"} =>
        /\ KeySet(sample.kset) \cap WinnerKeys = {}
        /\ pc = "sorted" =>
            \A n \in DOMAIN scores :
                LET orig == OrigKset(strains[n])
                    cached == pangenome.strainCache[strains[n]]
                    left == KeySet(orig) \ (UniversalKeys \cup WinnerKeys)
                IN  /\ cached.kset.kmers = SortedSeq(left)
                    /\ \A x \in left : CountOf(cached.kset, x) = CountOf(orig, x)
                    /\ cached.distinct_kmers = Len(orig.kmers)
                    /\ scores[n] # None =>
                        /\ scores[n][1].gkmers = Len(orig.kmers)
                        /\ scores[n][1].ikmers = Cardinality(left)
                        /\ scores[n][1].cov =
                             (Cardinality(left \cap KeySet(sample.kset)) * FP)
                                 \div Cardinality(left)

\* in the second iteration a strain that lost k-mers is scored, with
\* universal k-mers and a winner's k-mers excluded
C3_Witness ==
    /\ pc = "sorted" /\ i = 1
    /\ UniversalKeys # {}
    /\ WinnerKeys # {}
    /\ \E n \in DOMAIN scores :
          scores[n] # None /\ scores[n][1].ikmers < scores[n][1].gkmers

\* the three conditions under which a strain has no score
TooFewLeft(n) ==
    Len(pangenome.strainCache[strains[n]].kset.kmers) * gst.min_frac[2]
        < gst.min_frac[1] * Len(OrigKset(strains[n]).kmers)

NoneShared(n) ==
    KeySet(pangenome.strainCache[strains[n]].kset) \cap KeySet(sample.kset) = {}

TooLittleAccounted(n) ==
    CountSum(sample.kset, KeySet(pangenome.strainCache[strains[n]].kset))
            * gst.min_acct[2]
        < gst.min_acct[1] * Sum(sample.kset.counts)

StrainFields ==
    {"strain", "gkmers", "ikmers", "skmers", "cov", "kcov", "gcov", "acct",
     "even", "wcov", "spec", "score0", "score"}

\* C4: score_strain returns null exactly when, after the pending
\* exclusions, the strain has fewer than min_frac times its original
\* distinct k-mers left, or shares no k-mer with the sample, or the sample
\* counts of the shared k-mers sum to less than min_acct times the sum of
\* the sample's counts; otherwise it returns a full score record.
C4_NullExactlyWhen ==
    pc = "sorted" =>
        \A n \in DOMAIN scores :
            /\ scores[n] = None <=>
                  (TooFewLeft(n) \/ NoneShared(n) \/ TooLittleAccounted(n))
            /\ scores[n] # None =>
                  /\ DOMAIN scores[n][1] = StrainFields
                  /\ scores[n][1].strain = strains[n]

\* one strain is rejected for min_acct alone and
\* another is scored
C4_Witness ==
    /\ pc = "sorted"
    /\ \E n \in DOMAIN scores :
          scores[n] = None /\ ~TooFewLeft(n) /\ ~NoneShared(n)
    /\ \E n \in DOMAIN scores : scores[n] # None

\* C5: the rows do not depend on the order in which the strains are listed:
\* of two survivors with equal score the one with the smaller name is
\* ranked first, in the sorted list and in the rows of an iteration.
C5_TiesRankedByName ==
    /\ \A m, n \in DOMAIN strain_scores :
          (m < n /\ strain_scores[m].score = strain_scores[n].score)
              => NameIndex(strain_scores[m].strain) < NameIndex(strain_scores[n].strain)
    /\ \A m, n \in DOMAIN Rows :
          (m < n /\ Rows[m].pos[1] = Rows[n].pos[1]
                 /\ Rows[m].s.score = Rows[n].s.score)
              => NameIndex(Rows[m].s.strain) < NameIndex(Rows[n].s.strain)

\* C6: pan_kmers is the sum of the sample's counts after the restriction to
\* the pan-genome keys and the removal of the universal k-mers, and
\* pan_kcov is that sum over the number of remaining distinct k-mers.
C6_PanKmersIsCountSum ==
    result # None =>
        LET left == (KeySet(sample_file) \cap KeySet(pangenome.kset)) \ UniversalKeys
        IN  /\ result[1].pan_kmers = CountSum(sample_file, left)
            /\ result[1].pan_kcov = <<CountSum(sample_file, left), Cardinality(left)>>

(***************************************************************************)
(* Properties of the k-mer spectrum.                                       *)
(***************************************************************************)
\* a call of spectrum_min_max or spectrum_filter has returned
SpectrumCalled == hist.op \in {"spectrum_min_max", "spectrum_filter"}

\* C16: spectrum_min_max returns (freq[min_index], freq[max_index],
\* freq[last]) exactly when the count at the peak index of the scan exceeds
\* (1 + delta) times the count at the valley index, and nothing otherwise;
\* last is the last index the scan accepted, the highest frequency of the
\* spectrum when the scan reaches the end.
C16_SpectrumMinMaxTriple ==
    (SpectrumCalled /\ hist.pre.counts # <<>>) =>
        LET sp == spectrum(hist.pre)
            freq == sp.kmers
            counts == sp.counts
            st == spectrum_scanned(freq, counts, <<1, 2>>, 20)
            last == IF st.broke THEN st.i - 1 ELSE Len(freq) - 1
        IN  IF 2 * counts[st.max_index + 1] > 3 * counts[st.min_index + 1]
            THEN hist.arg = Some(<<freq[st.min_index + 1], freq[st.max_index + 1],
                                   freq[last + 1]>>)
            ELSE hist.arg = None

\* the frequencies of the spectrum are consecutive and the numbers of k-mers
\* do not decrease up to a peak and do not increase after it
Unimodal(sp) ==
    /\ sp.kmers # <<>>
    /\ \A j \in 1..(Len(sp.kmers) - 1) : sp.kmers[j + 1] = sp.kmers[j] + 1
    /\ \E peak \in DOMAIN sp.counts :
          /\ \A j \in 1..(peak - 1) : sp.counts[j] <= sp.counts[j + 1]
          /\ \A j \in peak..(Len(sp.counts) - 1) : sp.counts[j] >= sp.counts[j + 1]

C7_CountsAreStrainCounts ==
    saved # None =>
        /\ KeySet(saved[1]) = UNION {KeySet(h5[n].kset) : n \in DOMAIN h5}
        /\ \A x \in KeySet(saved[1]) :
              CountOf(saved[1], x)
                = Cardinality({n \in DOMAIN h5 : x \in KeySet(h5[n].kset)})

(***************************************************************************)
(* Properties of the variant caller.                                       *)
(***************************************************************************)
\* the sum of the lengths of the scaffolds before scaffold n
LengthBefore(n) == Sum(SubSeq(Reference_lengths(reference), 1, n - 1))

ScaffoldIndex(name) == CHOOSE n \in DOMAIN reference : reference[n].id = name

\* C11: for every global coordinate g in [0, total length) scaffold_coord(g)
\* returns (name, local) with 1 <= local <= length(name) and
\* g = sum of the lengths of the scaffolds before name + local - 1, and
\* scaffold_to_genome_coord(name, local) returns g.
C11_CoordRoundTrip ==
    coord_call # None =>
        LET c == coord_call[1]
        IN  /\ (c.op = "scaffold_coord"
                  /\ c.coord < Sum(Reference_lengths(reference))) =>
                /\ c.result.kind = "return"
                /\ c.result.value # None
                /\ LET name == c.result.value[1][1]
                       local == c.result.value[1][2]
                   IN  /\ \E n \in DOMAIN reference : reference[n].id = name
                       /\ 1 <= local
                       /\ local <= reference[ScaffoldIndex(name)].length
                       /\ c.coord = LengthBefore(ScaffoldIndex(name)) + local - 1
            /\ c.op = "scaffold_to_genome_coord" =>
                c.result = Returned(LengthBefore(ScaffoldIndex(c.name)) + c.coord - 1)

\* the scaffolds of the call data once the alleles are called
CalledScaffolds ==
    IF vpc \in {"called", "finalized"}
    THEN {call_data.scaffolds_data[n] : n \in DOMAIN call_data.scaffolds_data}
    ELSE {}

\* the alleles of position p with a quality sum above min_pileup_qual and a
\* share of the position's quality sum above min_qual_frac
ConfirmedAlleles(sd, p) ==
    LET total == Sum(sd.alleles_qual[p])
        opt == caller[1]
    IN  {a \in DOMAIN ALLELE_MASKS :
            /\ sd.alleles_qual[p][a] > opt.min_pileup_qual
            /\ total > 0
            /\ sd.alleles_qual[p][a] * opt.min_qual_frac[2]
                 > opt.min_qual_frac[1] * total}

\* C14: after call_alleles weak and strong are 0 at every position whose
\* coverage is above the coverage cutoff; at every other position weak has
\* the bits of the alleles with a quality sum > 0 and strong the bits of the
\* alleles with a quality sum > min_pileup_qual and a share of the position's
\* quality sum > min_qual_frac.
C14_CallAlleles ==
    \A sd \in CalledScaffolds : \A p \in 1..sd.length :
        IF sd.coverage[1][p] > sd.coverage_cutoff
        THEN sd.weak[1][p] = 0 /\ sd.strong[1][p] = 0
        ELSE /\ sd.weak[1][p] \in 0..63
             /\ AllelesOf(sd.weak[1][p])
                  = {a \in DOMAIN ALLELE_MASKS : sd.alleles_qual[p][a] > 0}
             /\ sd.strong[1][p] \in 0..63
             /\ AllelesOf(sd.strong[1][p]) = ConfirmedAlleles(sd, p)

\* the alleles are called on a scaffold with a position of too high coverage
\* that has reads, and a position with a weak allele that is not strong next
\* to a strong one
C14_Witness ==
    \E sd \in CalledScaffolds :
        /\ \E p \in 1..sd.length :
              /\ sd.coverage[1][p] > sd.coverage_cutoff
              /\ Sum(sd.alleles_qual[p]) > 0
        /\ \E p \in 1..sd.length :
              /\ sd.strong[1][p] # 0
              /\ sd.weak[1][p] # sd.strong[1][p]

\* the scaffolds of the call data once the gaps are found
GappedScaffolds ==
    IF vpc = "finalized"
    THEN {call_data.scaffolds_data[n] : n \in DOMAIN call_data.scaffolds_data}
    ELSE {}

\* position p (from 0) of the scaffold is covered
Covered(sd, p) == sd.weak[1][p + 1] # 0 \/ sd.lowmq[1][p + 1]

\* the maximal runs [b, e) of uncovered positions
UncoveredRuns(sd) ==
    {r \in (0..sd.length) \X (0..sd.length) :
        /\ r[1] < r[2]
        /\ \A p \in r[1]..(r[2] - 1) : ~Covered(sd, p)
        /\ r[1] = 0 \/ Covered(sd, r[1] - 1)
        /\ r[2] = sd.length \/ Covered(sd, r[2])}

\* C15: after find_gaps the gaps of a scaffold are exactly the maximal runs
\* of uncovered positions (weak = 0 and not lowmq) of at least the
\* coverage-scaled minimum gap size; they are pairwise disjoint and within
\* [0, length), and a scaffold with every position covered has no gap.
C15_GapsAreUncoveredRuns ==
    \A sd \in GappedScaffolds :
        LET min_size == scale_min_gap_size(call_data.min_gap_size, sd.mean_coverage)
            gaps == {<<sd.gaps[n].start, sd.gaps[n].end>> : n \in DOMAIN sd.gaps}
        IN  /\ gaps = {r \in UncoveredRuns(sd) : r[2] - r[1] >= min_size}
            /\ \A n \in DOMAIN sd.gaps :
                  /\ 0 <= sd.gaps[n].start
                  /\ sd.gaps[n].start < sd.gaps[n].end
                  /\ sd.gaps[n].end <= sd.length
                  /\ sd.gaps[n].length = sd.gaps[n].end - sd.gaps[n].start
            /\ \A n, m \in DOMAIN sd.gaps :
                  n < m => sd.gaps[n].end <= sd.gaps[m].start
            /\ (\A p \in 0..(sd.length - 1) : Covered(sd, p)) => sd.gaps = <<>>

\* the gaps are found on a scaffold with a gap, a position covered by reads
\* of low mapping quality only, and a covered run as long as the gap
C15_Witness ==
    \E sd \in GappedScaffolds :
        /\ Len(sd.gaps) = 1
        /\ sd.gaps[1].length = 1
        /\ \E p \in 0..(sd.length - 1) : sd.lowmq[1][p + 1] /\ sd.weak[1][p + 1] = 0
        /\ \E p \in 0..(sd.length - 1) : sd.weak[1][p + 1] # 0

\* the scaffolds of the call data with the record summarize yielded for each
SummarizedScaffolds ==
    IF vpc = "summarized"
    THEN {<<call_data.scaffolds_data[n], summary.records[n]>> :
            n \in DOMAIN call_data.scaffolds_data \cap DOMAIN summary.records}
    ELSE {}

\* the strong call at position p is a single allele
IsSingle(sd, p) == Cardinality(AllelesOf(sd.strong[1][p])) = 1

\* the positions with a single strong allele that is not in refmask
SnpPositions(sd) ==
    {p \in 1..sd.length :
        /\ IsSingle(sd, p)
        /\ AllelesOf(sd.strong[1][p]) \cap AllelesOf(sd.refmask[p]) = {}}

\* C12: for every scaffold the snps of summarize is the number of positions
\* where strong is a single allele and that allele is not in refmask,
\* whichever allele it is.
C12_SnpsAnyAllele ==
    \A sr \in SummarizedScaffolds :
        sr[2].name # "TOTAL" => sr[2].snps = Cardinality(SnpPositions(sr[1]))

\* C13: for every scaffold transitions + transversions of summarize is its
\* snps, and transitions is the number of SNP positions p whose pair
\* (refmask[p], strong[p]) is A/G, G/A, C/T or T/C.
C13_TsTvOverSnps ==
    \A sr \in SummarizedScaffolds :
        sr[2].name # "TOTAL" =>
            /\ sr[2].transitions + sr[2].transversions = sr[2].snps
            /\ sr[2].transitions =
                 Cardinality({p \in SnpPositions(sr[1]) :
                     <<sr[1].refmask[p], sr[1].strong[1][p]>>
                        \in {<<Allele_A, Allele_G>>, <<Allele_G, Allele_A>>,
                             <<Allele_C, Allele_T>>, <<Allele_T, Allele_C>>}})

\* C18: for any read counts >= 0 and any repetitiveness in [0, 1] summarize
\* reports for each scaffold the abundance
\* read_count / (length * (1 - repetitiveness)) divided by the sum of these
\* values over the scaffolds; the abundances are non-negative and sum to 1,
\* and the TOTAL record follows them.
C18_AbundancesSumToOne ==
    vpc = "summarized" =>
        LET sds == call_data.scaffolds_data
            raw == [n \in DOMAIN sds |->
                      <<sds[n].read_count * sds[n].repetitiveness[2],
                        sds[n].length
                          * (sds[n].repetitiveness[2] - sds[n].repetitiveness[1])>>]
            abundance(n) == summary.records[n].abundance
        IN  /\ summary.raised = None
            /\ Len(summary.records) = Len(sds) + 1
            /\ summary.records[Len(sds) + 1].name = "TOTAL"
            /\ \A n \in DOMAIN sds :
                  /\ abundance(n)[2] # 0
                  /\ abundance(n)[1] * abundance(n)[2] >= 0
                  /\ abundance(n)[1] * raw[n][2] * FracSum(raw)[1]
                       = raw[n][1] * FracSum(raw)[2] * abundance(n)[2]
            /\ LET total == FracSum([n \in DOMAIN sds |-> abundance(n)])
               IN  total[1] = total[2]

\* a pileup read has been assessed
Assessed == vpc \in {"pileups", "raised"} /\ pileup.n > 0

\* C19: once a query name is in discarded_reads, a later pileup read with
\* that name increments bad[scaffold, refpos] by one and changes no allele
\* count, quality sum, mq_sum or lowmq_count at any position.
C19_DiscardedOnlyBad ==
    (Assessed /\ pileup.read[1].query_name \in pileup.discarded_reads) =>
        LET before == pileup.call_data[1]
            k == CHOOSE n \in DOMAIN before.scaffolds_data :
                    before.scaffolds_data[n].name = pileup.scaffold
        IN  /\ vpc = "pileups"
            /\ CountersOf(call_data) = CountersOf(before)
            /\ \A n \in DOMAIN before.scaffolds_data :
               \A p \in 1..before.scaffolds_data[n].length :
                  call_data.scaffolds_data[n].bad[p]
                    = before.scaffolds_data[n].bad[p]
                        + (IF n = k /\ p = pileup.refpos + 1 THEN 1 ELSE 0)

\* a read without a flaw, of low mapping quality and with alternative
\* alignments, is assessed after a read of the same name was discarded
C19_Witness ==
    /\ Assessed
    /\ pileup.read[1].query_name \in pileup.discarded_reads
    /\ pileup.read[1].XA # None
    /\ pileup.read[1].mapping_quality < caller[1].min_mapping_quality
    /\ pileup.read[1].is_proper_pair
    /\ pileup.read[1].query_alignment_length = pileup.read[1].query_length
    /\ pileup.read[1].qual >= caller[1].min_qual

\* the read passes the alignment gates, the base quality gate and the N gate
PassesGates(read, discarded) ==
    /\ read.query_name \notin discarded
    /\ read.is_paired => read.is_proper_pair
    /\ read.query_alignment_length = read.query_length
    /\ read.is_paired =>
          (IF read.template_length < 0 THEN -read.template_length
           ELSE read.template_length) >= read.query_length
    /\ caller[1].max_num_mismatches > 0 =>
          (IF read.NM = None THEN 0 ELSE read.NM[1]) <= caller[1].max_num_mismatches
    /\ read.qual >= caller[1].min_qual
    /\ read.is_del \/ read.indel > 0 \/ read.base \in {"A", "C", "G", "T"}

\* the alternative locations of the read within the bounds of their scaffold
InBoundsLocations(read, refpos, data) ==
    LET locations == alternative_locations(read, refpos)
    IN  {n \in DOMAIN locations :
            \E k \in DOMAIN data.scaffolds_data :
                /\ data.scaffolds_data[k].name = locations[n][1]
                /\ 0 <= locations[n][2]
                /\ locations[n][2] < data.scaffolds_data[k].length}

\* C20: a pileup read that passes the gates with a mapping quality below
\* min_mapping_quality increments lowmq_count once at its own position and
\* once at every alternative location of its XA tag that survives and is
\* within bounds, and no allele count, quality sum or mq_sum.
C20_LowMqCounted ==
    (/\ Assessed
     /\ PassesGates(pileup.read[1], pileup.discarded_reads)
     /\ pileup.read[1].mapping_quality < caller[1].min_mapping_quality) =>
        LET before == pileup.call_data[1]
            read == pileup.read[1]
            locations == alternative_locations(read, pileup.refpos)
            inbounds == InBoundsLocations(read, pileup.refpos, before)
        IN  /\ vpc = "pileups"
            /\ \A k \in DOMAIN before.scaffolds_data :
                  LET sd == before.scaffolds_data[k]
                      now == call_data.scaffolds_data[k]
                  IN  /\ now.alleles_count = sd.alleles_count
                      /\ now.alleles_qual = sd.alleles_qual
                      /\ now.mq_sum = sd.mq_sum
                      /\ \A p \in 1..sd.length :
                            now.lowmq_count[p] = sd.lowmq_count[p]
                              + (IF sd.name = pileup.scaffold /\ p = pileup.refpos + 1
                                 THEN 1 ELSE 0)
                              + Cardinality({n \in inbounds :
                                    /\ locations[n][1] = sd.name
                                    /\ locations[n][2] = p - 1})

(***************************************************************************)
(* Properties of VariantCaller.process as a whole.                         *)
(***************************************************************************)
\* the place of a step of process in their order; an exception in the
\* pileups ends process
StepRank(step) ==
    CASE step = "fetch" -> 1
      [] step = "pileups" -> 2
      [] step = "piled" -> 3
      [] step = "covered" -> 4
      [] step = "called" -> 5
      [] step = "finalized" -> 6
      [] step = "raised" -> 7

\* the counters of the pileups, per scaffold
PileupCounters(data) ==
    [k \in DOMAIN data.scaffolds_data |->
        <<data.scaffolds_data[k].alleles_count, data.scaffolds_data[k].alleles_qual,
          data.scaffolds_data[k].bad, data.scaffolds_data[k].lowmq_count,
          data.scaffolds_data[k].mq_sum>>]

\* the number of uniquely mapped reads, per scaffold
ReadCounts(data) ==
    [k \in DOMAIN data.scaffolds_data |-> data.scaffolds_data[k].read_count]

\* the results of the steps on the call data that are there, per scaffold
StepsDone(data) ==
    [k \in DOMAIN data.scaffolds_data |->
        <<data.scaffolds_data[k].coverage # None, data.scaffolds_data[k].strong # None,
          data.scaffolds_data[k].lowmq # None>>]

\* C21: the steps of process run in their order, one after the other: the
\* read counts change in the first loop only, the pileup counters in the
\* second loop only, coverage is set by analyze_coverage after the pileups,
\* the calls by call_alleles after that and lowmq by find_gaps at the end;
\* no counter changes once the pileups are over.
C21_StepsInOrder ==
    [][/\ \/ StepRank(vpc') = StepRank(vpc)
          \/ StepRank(vpc') = StepRank(vpc) + 1 /\ vpc # "pileups"
          \/ vpc = "pileups" /\ vpc' \in {"piled", "raised"}
       /\ ReadCounts(call_data') # ReadCounts(call_data) => vpc = "fetch"
       /\ PileupCounters(call_data') # PileupCounters(call_data) => vpc = "pileups"
       /\ StepsDone(call_data') # StepsDone(call_data) =>
             /\ vpc \in {"piled", "covered", "called"}
             /\ vpc' # vpc
       /\ \A k \in DOMAIN call_data'.scaffolds_data :
             StepsDone(call_data')[k] =
                 <<StepRank(vpc') \in 4..6, StepRank(vpc') \in 5..6,
                   StepRank(vpc') = 6>>]_vars

\* process has returned for a file with a uniquely mapped read and a good
\* pileup read
C21_Witness ==
    /\ vpc = "finalized"
    /\ pileup.n > 0
    /\ call_data.uniquely_mapped_reads > 0
    /\ \E k \in DOMAIN call_data.scaffolds_data :
          \E p \in 1..call_data.scaffolds_data[k].length :
              /\ call_data.scaffolds_data[k].coverage[1][p] > 0
              /\ call_data.scaffolds_data[k].weak[1][p] > 0

\* the read fails a gate on its alignment: an improper pair, a clipped
\* alignment, an insert shorter than the read, more mismatches than the
\* ceiling when one is set
FailsAlignmentGate(read) ==
    \/ read.is_paired /\ ~read.is_proper_pair
    \/ read.query_alignment_length # read.query_length
    \/ /\ read.is_paired
       /\ read.template_length < read.query_length
       /\ -read.template_length < read.query_length
    \/ /\ caller[1].max_num_mismatches > 0
       /\ read.NM # None
       /\ read.NM[1] > caller[1].max_num_mismatches

\* the base of the entry is of low quality or is no allele
FailsBaseGate(read) ==
    \/ read.qual < caller[1].min_qual
    \/ ~read.is_del /\ read.indel <= 0 /\ read.base \notin {"A", "C", "G", "T"}

\* bad of every scaffold
BadOf(data) == [k \in DOMAIN data.scaffolds_data |-> data.scaffolds_data[k].bad]

\* C22: discarded_reads is empty when the pileups start and only grows; a
\* pileup read adds its query name exactly when the name is not in the set
\* and the read fails a gate on its alignment; a read that passes those with
\* a base of low quality or an N is counted bad at its position and its name
\* is not added.
C22_DiscardedReads ==
    /\ (vpc = "pileups" /\ pileup.n = 0) => discarded_reads = {}
    /\ (StepRank(vpc) >= 2 /\ pileup.n > 0) =>
          LET read == pileup.read[1]
              before == pileup.discarded_reads
              inserted == read.query_name \notin before /\ FailsAlignmentGate(read)
          IN  /\ discarded_reads =
                    before \cup (IF inserted THEN {read.query_name} ELSE {})
              /\ (/\ read.query_name \notin before
                  /\ ~FailsAlignmentGate(read)
                  /\ FailsBaseGate(read)) =>
                    /\ read.query_name \notin discarded_reads
                    /\ CountersOf(call_data) = CountersOf(pileup.call_data[1])
                    /\ BadOf(call_data) =
                          BadOf(bad_read(pileup.call_data[1], pileup.scaffold,
                                         pileup.refpos))

\* an entry of r1 with a base of low quality or an N was counted bad and did
\* not add the name; a later entry of r1 fails a gate and adds it
C22_Witness ==
    /\ vpc = "pileups" /\ pileup.n = 2
    /\ pileup.discarded_reads = {}
    /\ discarded_reads = {"r1"}
    /\ pileup.call_data[1].scaffolds_data[1].bad[1] = 1
    /\ pileup.refpos = 2

\* the allele of a pileup read that passes the gates
AlleleOf(read) ==
    IF read.is_del THEN Allele_DEL
    ELSE IF read.indel > 0 THEN Allele_INS
    ELSE Allele_from_str(read.base)

\* the entries of the XA tag of the read without S, H, D or I in the cigar
\* and with at most the mismatches of the read
SurvivingEntries(read) ==
    IF read.XA = None THEN <<>>
    ELSE SelectSeq(read.XA[1], LAMBDA aln :
             /\ \A op \in Range(aln.cigar) : op \notin {"S", "H", "D", "I"}
             /\ aln.nm <= read.NM[1])

\* C23: a pileup read that passes the gates with a mapping quality of at
\* least min_mapping_quality is counted as a good read at its position with
\* its base; with a mapping quality of at most 3 it is also counted once at
\* the location of every surviving entry of its XA tag, with the reverse
\* complement of the base exactly when the strand of the entry differs from
\* the strand of the read, and every such location is a position of its
\* scaffold.
C23_GoodReadRecorded ==
    (/\ Assessed
     /\ PassesGates(pileup.read[1], pileup.discarded_reads)
     /\ pileup.read[1].mapping_quality >= caller[1].min_mapping_quality) =>
        LET before == pileup.call_data[1]
            read == pileup.read[1]
            base == AlleleOf(read)
            entries == IF read.mapping_quality <= 3 THEN SurvivingEntries(read)
                       ELSE <<>>
            locations == alternative_locations(read, pileup.refpos)
            baseAt(n) == IF (entries[n].pos < 0) # read.is_reverse
                         THEN Allele_rc(base) ELSE base
            hits(name, p, a) ==
                (IF name = pileup.scaffold /\ p = pileup.refpos + 1
                    /\ ALLELE_MASKS[a] = base THEN 1 ELSE 0)
                + Cardinality({n \in DOMAIN entries :
                      /\ locations[n][1] = name
                      /\ locations[n][2] = p - 1
                      /\ ALLELE_MASKS[a] = baseAt(n)})
        IN  /\ vpc = "pileups"
            /\ \A n \in DOMAIN entries :
                  \E k \in DOMAIN before.scaffolds_data :
                      /\ before.scaffolds_data[k].name = entries[n].scaffold
                      /\ locations[n][1] = entries[n].scaffold
                      /\ 0 <= locations[n][2]
                      /\ locations[n][2] < before.scaffolds_data[k].length
            /\ \A k \in DOMAIN before.scaffolds_data :
                  LET sd == before.scaffolds_data[k]
                      now == call_data.scaffolds_data[k]
                  IN  /\ now.lowmq_count = sd.lowmq_count
                      /\ now.bad = sd.bad
                      /\ \A p \in 1..sd.length : \A a \in 1..6 :
                            /\ now.alleles_count[p][a] =
                                  sd.alleles_count[p][a] + hits(sd.name, p, a)
                            /\ now.alleles_qual[p][a] =
                                  sd.alleles_qual[p][a]
                                    + read.qual * hits(sd.name, p, a)

\* C24: when spectrum_min_max returns (min, max, upper), min < max <= upper;
\* spectrum_filter then keeps the k-mers of the peak frequency max.
C24_PeakInsideRange ==
    (SpectrumCalled /\ hist.arg # None) =>
        LET min == hist.arg[1][1]
            max == hist.arg[1][2]
            upper == hist.arg[1][3]
        IN  /\ min < max
            /\ max <= upper
            /\ hist.op = "spectrum_filter" =>
                  \A j \in DOMAIN hist.pre.counts :
                      hist.pre.counts[j] = max =>
                          hist.pre.kmers[j] \in Range(kset.kmers)

\* the strains selected as winner so far
Winners == {Rows[n].s.strain : n \in WinnerRows}

\* C25: an iteration that selects a winner removes at least one k-mer from
\* the sample, and its winner was not the winner of an earlier iteration.
C25_WinnerShrinksSample ==
    [][(pc = "sorted" /\ pc' = "loop") =>
          /\ KeySet(sample'.kset) \subseteq KeySet(sample.kset)
          /\ KeySet(sample'.kset) # KeySet(sample.kset)
          /\ strain_scores[1].strain \notin Winners
          /\ Winners' = Winners \cup {strain_scores[1].strain}]_vars

\* with min_frac = 0 a second winner is selected after the first winner,
\* left without k-mers, was scored again
C25_Witness ==
    /\ pc = "loop" /\ i = 2
    /\ gst.min_frac = <<0, 1>>
    /\ Cardinality(Winners) = 2
    /\ \E n \in DOMAIN scores :
          /\ strains[n] \in Winners
          /\ strains[n] # strain_scores[1].strain
          /\ scores[n] = None
          /\ pangenome.strainCache[strains[n]].kset.kmers = <<>>

\* C26: when the pileups are over no read whose query name is in
\* discarded_reads has changed an allele count, a quality sum or a
\* lowmq_count.
C26_DiscardedNeverCounted ==
    StepRank(vpc) \in 3..6 => pileup.counted \cap discarded_reads = {}

\* C27: no position whose coverage is above the cutoff of its scaffold lies
\* inside a gap that find_gaps reports.
C27_HighCoverageNotInGap ==
    \A sd \in GappedScaffolds :
        \A p \in 0..(sd.length - 1) :
            sd.high_coverage[1][p + 1] =>
                ~\E n \in DOMAIN sd.gaps :
                     sd.gaps[n].start <= p /\ p < sd.gaps[n].end

\* what the column p (from 1) of scaffold k counts: bad, lowmq_count and the
\* six allele counts
ColumnCounts(data, k, p) ==
    <<data.scaffolds_data[k].bad[p], data.scaffolds_data[k].lowmq_count[p]>>
        \o data.scaffolds_data[k].alleles_count[p]

\* C28: a pileup read without XA tag increases exactly one of bad,
\* lowmq_count and the allele counts of its own column by one and changes no
\* counter of another position; so as long as no read has an XA tag, bad +
\* lowmq_count + the allele counts of a column is the number of pileup reads
\* of the column.
C28_OneCounterPerEntry ==
    /\ (StepRank(vpc) >= 2 /\ pileup.n > 0 /\ pileup.read[1].XA = None) =>
          LET before == pileup.call_data[1]
              own == ScaffoldKey(before, pileup.scaffold)
          IN  /\ vpc # "raised"
              /\ \A k \in DOMAIN before.scaffolds_data :
                 \A p \in 1..before.scaffolds_data[k].length :
                    LET was == ColumnCounts(before, k, p)
                        now == ColumnCounts(call_data, k, p)
                    IN  IF k = own /\ p = pileup.refpos + 1
                        THEN \E c \in DOMAIN was :
                                /\ now[c] = was[c] + 1
                                /\ \A d \in DOMAIN was \ {c} : now[d] = was[d]
                        ELSE /\ now = was
                             /\ call_data.scaffolds_data[k].alleles_qual[p]
                                   = before.scaffolds_data[k].alleles_qual[p]
                             /\ call_data.scaffolds_data[k].mq_sum[p]
                                   = before.scaffolds_data[k].mq_sum[p]
    /\ (StepRank(vpc) >= 2 /\ ~pileup.with_xa) =>
          \A k \in DOMAIN call_data.scaffolds_data :
          \A p \in 1..call_data.scaffolds_data[k].length :
              Sum(ColumnCounts(call_data, k, p)) =
                  IF call_data.scaffolds_data[k].name = "s1" THEN pileup.entries[p]
                  ELSE 0

\* the pileups are over: a column holds two reads without XA tag, one
\* counted bad and a good one
C28_Witness ==
    /\ vpc = "piled" /\ ~pileup.with_xa
    /\ \E p \in 1..3 :
          /\ pileup.entries[p] = 2
          /\ call_data.scaffolds_data[1].bad[p] = 1
          /\ Sum(call_data.scaffolds_data[1].alleles_count[p]) = 1

\* C29: after call_alleles every allele of strong[p] is an allele of
\* weak[p], at every position, also where no quality was summed.
C29_StrongWithinWeak ==
    \A sd \in CalledScaffolds :
        \A p \in 1..sd.length :
            /\ AllelesOf(sd.strong[1][p]) \subseteq AllelesOf(sd.weak[1][p])
            /\ BitAnd(sd.strong[1][p], BitNot8(sd.weak[1][p])) = 0

\* call_alleles has run on a scaffold with a position without any quality, a
\* position with a strong allele and a position with an allele that is weak
\* only
C29_Witness ==
    \E sd \in CalledScaffolds :
        /\ \E p \in 1..sd.length : Sum(sd.alleles_qual[p]) = 0
        /\ \E p \in 1..sd.length : sd.strong[1][p] # 0
        /\ \E p \in 1..sd.length : sd.strong[1][p] # sd.weak[1][p]

(***************************************************************************)
(* Properties of kmerize_file.                                             *)
(***************************************************************************)
RECURSIVE AllKmers(_, _)
\* the k-mers of all records of the file, in order
AllKmers(k, seq_file) ==
    IF seq_file = <<>> THEN <<>>
    ELSE kmerizer_kmerize(k, Head(seq_file)) \o AllKmers(k, Tail(seq_file))

\* C30: with limit and prune off and a batch size of at least the longest
\* record, kmerize_file leaves the same k-mer set whatever the batch size:
\* the k-mers of all records, each with the number of its occurrences, the
\* counts summing to n_kmers, and the numbers of records and bases of the
\* file in n_seqs and n_bases.
C30_KmerizeFileAnyBatchSize ==
    hist.op = "kmerize_file" =>
        LET seq_file == hist.arg[1]
            all == AllKmers(hist.arg[3], seq_file)
        IN  /\ ~kset.kmers_is_none
            /\ kset.kmers = SortedSeq(Range(all))
            /\ \A j \in DOMAIN kset.kmers :
                  kset.counts[j] =
                      Cardinality({p \in DOMAIN all : all[p] = kset.kmers[j]})
            /\ DOMAIN kset.counts = DOMAIN kset.kmers
            /\ Sum(kset.counts) = kset.n_kmers
            /\ kset.n_kmers = Len(all)
            /\ kset.n_seqs = Len(seq_file)
            /\ kset.n_bases = BasesOf(seq_file)

\* kmerize_file has merged more than one batch, a k-mer occurs in two of
\* them, and a record has a base that is no A, C, G or T
C30_Witness ==
    /\ hist.op = "kmerize_file"
    /\ Len(hist.arg[1]) = 3
    /\ hist.arg[2] = 1
    /\ \E n \in DOMAIN hist.arg[1] : "N" \in Range(hist.arg[1][n])
    /\ kset.n_kmers = 2
    /\ kset.counts = <<2>>

====
